---- MODULE Spec2Model ----
(***************************************************************************)
(* Re-simulation / projection engine of the inventory forecast service     *)
(* (PythonService in services/python.service.js): effective parameter      *)
(* resolver, daily stock simulator, alert regenerator and the override      *)
(* orchestrator with its read-modify-write cycle on the stored document.    *)
(*                                                                         *)
(* Quantities (stock, units, consumption, safety stock) are fixed-point    *)
(* numbers: 1 stands for 0.001 unit, so toFixed(2) rounds to a multiple of *)
(* 10.  A date string "YYYY-MM-DD" is a day number; a Date object is an     *)
(* instant counted in hours of UTC.  Month keys ("ENE-2025") are month      *)
(* numbers 1, 2, ...; the null month key is 0.                              *)
(***************************************************************************)
EXTENDS Integers, Sequences, FiniteSets, TLC

\* ---------------------------------------------------------------- bounds
NumMonths == 2
MonthLen == 3
MaxOps == 2
MaxChunks == 1
MaxDays == 2

\* ------------------------------------------------------- program constants
defaultLeadTimeDays == 20
TZOffsetHours == -5

NullKey == 0

\* ------------------------------------------------------------ arithmetic
\* parseFloat(x.toFixed(2)): round to two decimals, half up
toFixed2(x) == ((x + 5) \div 10) * 10

\* variant: the quotient is rounded down
FloorDiv(a, b) == a \div b

\* Math.ceil(a / b) for b > 0
Ceil(a, b) == -((-a) \div b)

\* variant: no floor at zero
NoFloor(x) == x

\* Math.max(0, x)
Max0(x) == IF x > 0 THEN x ELSE 0

Abs(x) == IF x < 0 THEN -x ELSE x

RECURSIVE ISqrtIter(_, _, _)
ISqrtIter(n, lo, hi) ==
    IF lo >= hi THEN lo
    ELSE LET mid == (lo + hi + 1) \div 2
         IN IF mid * mid <= n THEN ISqrtIter(n, mid, hi) ELSE ISqrtIter(n, lo, mid - 1)

\* Math.sqrt(n), result in thousandths
SqrtMilli(n) == ISqrtIter(n * 1000000, 0, 1000 * (n + 1))

\* ----------------------------------------------------------------- dates
\* new Date(d + "T00:00:00"): local midnight of day d
ParseLocal(d) == d * 24 - TZOffsetHours

\* new Date(d): a date-only string is UTC midnight
ParseUTC(d) == d * 24

\* date.toISOString().split("T")[0]
toISODate(t) == t \div 24

\* fecha.setDate(fecha.getDate() + dias)
_addDays(fechaInicio, dias) == fechaInicio + 24 * dias

\* date.toLocaleString("es-ES", {month: "short"}) + "-" + date.getFullYear()
MonthKeyOf(t) == (((t + TZOffsetHours) \div 24) \div MonthLen) + 1

\* a JS property that is present and truthy (a number other than 0)
Truthy(obj, k) == k \in DOMAIN obj /\ obj[k] # 0

\* ------------------------------------------------ effective parameter resolver
_getEffectiveLeadTime(product, monthKey) ==
    LET cfg == product.CONFIGURACION
    IN IF monthKey # NullKey /\ Truthy(cfg.OVERRIDES.LEAD_TIME_DAYS, monthKey)
       THEN cfg.OVERRIDES.LEAD_TIME_DAYS[monthKey]
       ELSE IF Truthy(cfg, "LEAD_TIME_DAYS") THEN cfg.LEAD_TIME_DAYS
            ELSE defaultLeadTimeDays

\* jStat.normal.inv(serviceLevel / 100, 0, 1), in thousandths; the service
\* level is given in hundredths of a percent
_calculateZFactor(serviceLevel) ==
    CASE serviceLevel = 9999 -> 3719
      [] serviceLevel = 9500 -> 1645
      [] serviceLevel = 5000 -> 0
      [] OTHER -> 3719

_calculateDynamicSafetyStock(product, leadTime) ==
    LET sigmaD == IF "SIGMA_D" \in DOMAIN product THEN product.SIGMA_D ELSE 0
        z == _calculateZFactor(IF "NIVEL_SERVICIO" \in DOMAIN product.CONFIGURACION
                               THEN product.CONFIGURACION.NIVEL_SERVICIO ELSE 9999)
    IN (((z * sigmaD) \div 1000) * SqrtMilli(leadTime)) \div 1000

_getEffectiveSafetyStock(product, monthKey) ==
    LET cfg == product.CONFIGURACION
    IN IF monthKey # NullKey /\ Truthy(cfg.OVERRIDES.SAFETY_STOCK, monthKey)
       THEN cfg.OVERRIDES.SAFETY_STOCK[monthKey]
       ELSE IF cfg.SAFETY_STOCK_SOURCE = "Manual" /\ "SAFETY_STOCK" \in DOMAIN cfg
            THEN cfg.SAFETY_STOCK
            ELSE _calculateDynamicSafetyStock(product,
                     IF Truthy(cfg, "LEAD_TIME_DAYS") THEN cfg.LEAD_TIME_DAYS
                     ELSE defaultLeadTimeDays)

\* config.OVERRIDES?.SAFETY_STOCK?.[mes] ? "Manual" : "Calculado"
SafetyStockSource(product, monthKey) ==
    IF Truthy(product.CONFIGURACION.OVERRIDES.SAFETY_STOCK, monthKey)
    THEN "Manual" ELSE "Calculado"

\* ------------------------------------------------------------ lookups
\* product.PROYECCIONES.flatMap((p) => p.alertas_y_pedidos || [])
RECURSIVE FlatAlerts(_)
FlatAlerts(proyecciones) ==
    IF proyecciones = <<>> THEN <<>>
    ELSE Head(proyecciones).alertas_y_pedidos \o FlatAlerts(Tail(proyecciones))

\* product.PROYECCIONES.find((p) => p.mes === mesKey): its position, 0 if none
FindProjection(product, mesKey) ==
    LET hits == {i \in DOMAIN product.PROYECCIONES : product.PROYECCIONES[i].mes = mesKey}
    IN IF hits = {} THEN 0 ELSE CHOOSE i \in hits : \A j \in hits : i <= j

\* variant: every pending order with an arrival date is taken
ManualPedidosAll(product) ==
    SelectSeq(product.PEDIDOS_POR_LLEGAR, LAMBDA p : "fecha_arribo" \in DOMAIN p)

\* (product.PEDIDOS_POR_LLEGAR || []).filter((p) => p.isManual && p.fecha_arribo)
ManualPedidos(product) ==
    SelectSeq(product.PEDIDOS_POR_LLEGAR,
              LAMBDA p : p.isManual /\ "fecha_arribo" \in DOMAIN p)

\* variant: the stored arrival date is returned as it is
RecalculateArrivalDateKeep(alert) == alert.fecha_arribo

_recalculateArrivalDate(alert) ==
    IF "fecha_alerta" \notin DOMAIN alert \/ "lead_time_especifico" \notin DOMAIN alert
    THEN alert.fecha_arribo
    ELSE toISODate(_addDays(ParseUTC(alert.fecha_alerta), alert.lead_time_especifico))

\* last projection's fecha_fin_mes as a Date
FechaFinal(product) ==
    ParseLocal(product.PROYECCIONES[Len(product.PROYECCIONES)].fecha_fin_mes)


RECURSIVE SumSeq(_)
SumSeq(nums) == IF nums = <<>> THEN 0 ELSE Head(nums) + SumSeq(Tail(nums))

\* sum of pedido.unidades over the orders of a list
SumUnidades(pedidos) == SumSeq([i \in DOMAIN pedidos |-> pedidos[i].unidades])

\* ------------------------------------------------- daily stock simulator
\* Array.prototype.sort on arrival dates (stable)
RECURSIVE InsertByArrival(_, _)
InsertByArrival(sorted, p) ==
    IF sorted = <<>> THEN <<p>>
    ELSE IF ParseUTC(p.fecha_arribo) < ParseUTC(Head(sorted).fecha_arribo)
         THEN <<p>> \o sorted
         ELSE <<Head(sorted)>> \o InsertByArrival(Tail(sorted), p)

RECURSIVE SortByArrival(_)
SortByArrival(pedidos) ==
    IF pedidos = <<>> THEN <<>>
    ELSE InsertByArrival(SortByArrival(SubSeq(pedidos, 1, Len(pedidos) - 1)),
                         pedidos[Len(pedidos)])

\* todosLosPedidos: manual pending orders and all alerts, arrival recomputed
TodosLosPedidos(product) ==
    LET merged == ManualPedidos(product) \o FlatAlerts(product.PROYECCIONES)
    IN SortByArrival([i \in DOMAIN merged |->
           [merged[i] EXCEPT !.fecha_arribo = _recalculateArrivalDate(merged[i])]])

\* keys of unidadesEnTransitoPorFecha: every day from FECHA_INICIAL to the end
TransitKeys(product) ==
    LET inicio == ParseLocal(product.FECHA_INICIAL)
        fin == FechaFinal(product)
    IN {toISODate(_addDays(inicio, k)) :
            k \in {j \in 0..((fin - inicio) \div 24 + 1) : _addDays(inicio, j) <= fin}}

\* variant: the order still counts as in transit on the day it arrives
TransitDatesInclusive(product, pedido) ==
    LET fechaArribo == ParseLocal(pedido.fecha_arribo)
        fechaTransito == IF "fecha_alerta" \in DOMAIN pedido
                         THEN ParseLocal(pedido.fecha_alerta)
                         ELSE ParseLocal(product.FECHA_INICIAL)
    IN {toISODate(_addDays(fechaTransito, k)) :
            k \in {j \in 0..((fechaArribo - fechaTransito) \div 24 + 1) :
                       _addDays(fechaTransito, j) <= fechaArribo}}

\* the days on which one order is counted as in transit
TransitDates(product, pedido) ==
    LET fechaArribo == ParseLocal(pedido.fecha_arribo)
        fechaTransito == IF "fecha_alerta" \in DOMAIN pedido
                         THEN ParseLocal(pedido.fecha_alerta)
                         ELSE ParseLocal(product.FECHA_INICIAL)
    IN {toISODate(_addDays(fechaTransito, k)) :
            k \in {j \in 0..((fechaArribo - fechaTransito) \div 24 + 1) :
                       _addDays(fechaTransito, j) < fechaArribo}}

UnidadesEnTransitoPorFecha(product, todosLosPedidos) ==
    [fechaStr \in TransitKeys(product) |->
        SumSeq([i \in DOMAIN todosLosPedidos |->
                  IF "fecha_arribo" \in DOMAIN todosLosPedidos[i]
                     /\ fechaStr \in TransitDates(product, todosLosPedidos[i])
                  THEN todosLosPedidos[i].unidades ELSE 0])]

\* variant: the reorder point taken from the configuration's lead time
UpdateTotalsDefaultLeadTime(projection, ultimoDia, product) ==
    LET mesKey == projection.mes
        leadTime == _getEffectiveLeadTime(product, NullKey)
        ss == _getEffectiveSafetyStock(product, mesKey)
        rop == projection.consumo_diario * leadTime + ss
    IN [projection EXCEPT
          !.stock_proyectado_mes = ultimoDia.stock_proyectado,
          !.unidades_en_transito = ultimoDia.unidades_en_transito,
          !.stock_total_proyectado = ultimoDia.stock_total_proyectado,
          !.stock_seguridad = toFixed2(ss),
          !.punto_reorden = toFixed2(rop),
          !.stock_seguridad_source = SafetyStockSource(product, mesKey),
          !.indicador_riesgo = IF ultimoDia.stock_proyectado > rop THEN "Bajo"
                               ELSE IF ultimoDia.stock_proyectado > ss THEN "Medio"
                               ELSE "Alto"]

_updateMonthlyProjectionTotals(projection, ultimoDia, product) ==
    LET mesKey == projection.mes
        leadTime == _getEffectiveLeadTime(product, mesKey)
        ss == _getEffectiveSafetyStock(product, mesKey)
        rop == projection.consumo_diario * leadTime + ss
    IN [projection EXCEPT
          !.stock_proyectado_mes = ultimoDia.stock_proyectado,
          !.unidades_en_transito = ultimoDia.unidades_en_transito,
          !.stock_total_proyectado = ultimoDia.stock_total_proyectado,
          !.stock_seguridad = toFixed2(ss),
          !.punto_reorden = toFixed2(rop),
          !.stock_seguridad_source = SafetyStockSource(product, mesKey),
          !.indicador_riesgo = IF ultimoDia.stock_proyectado > rop THEN "Bajo"
                               ELSE IF ultimoDia.stock_proyectado > ss THEN "Medio"
                               ELSE "Alto"]

\* variant: the trajectory of the previous run is not cleared
ResetDiarioKeepsOld(projection) == projection.stock_diario_proyectado

\* projection.stock_diario_proyectado = []
ResetDiario(projection) == <<>>

\* variant: the month starts from the previous month's total (stock + transit)
StockInicialMesFromTotal(product, i) ==
    IF i = 1 THEN product.STOCK_TOTAL
    ELSE toFixed2(product.PROYECCIONES[i - 1].stock_total_proyectado)

\* stock_inicial_mes of month i (1-based), lines 654-660
StockInicialMes(product, i) ==
    IF i = 1 THEN product.STOCK_TOTAL
    ELSE toFixed2(product.PROYECCIONES[i - 1].stock_proyectado_mes)

\* variant: an order is received once its arrival date is reached
ArrivesByToday(pedido, fechaSimulacionStr) == pedido.fecha_arribo <= fechaSimulacionStr

\* line 672: pedido.fecha_arribo === fechaSimulacionStr
ArrivesToday(pedido, fechaSimulacionStr) == pedido.fecha_arribo = fechaSimulacionStr

\* the day loop of one month, lines 667-698
RECURSIVE SimulateDays(_, _, _, _, _, _, _)
SimulateDays(projection, transito, fechaSimulacion, fechaFinMes, stockProyectado, pedidosPendientes, diario) ==
    IF fechaSimulacion > fechaFinMes THEN diario
    ELSE LET fechaSimulacionStr == toISODate(fechaSimulacion)
             pedidosRecibidosHoy ==
                 SumUnidades(SelectSeq(pedidosPendientes,
                     LAMBDA p : ArrivesToday(p, fechaSimulacionStr)))
             stock == Max0(stockProyectado + pedidosRecibidosHoy
                           - projection.consumo_diario)
             unidadesEnTransitoHoy ==
                 IF fechaSimulacionStr \in DOMAIN transito
                 THEN transito[fechaSimulacionStr] ELSE 0
         IN SimulateDays(projection, transito, _addDays(fechaSimulacion, 1),
                fechaFinMes, stock,
                SelectSeq(pedidosPendientes,
                    LAMBDA p : ~ArrivesToday(p, fechaSimulacionStr)),
                Append(diario,
                    [fecha |-> fechaSimulacionStr,
                     stock_proyectado |-> toFixed2(stock),
                     unidades_en_transito |-> toFixed2(unidadesEnTransitoHoy),
                     stock_total_proyectado |-> toFixed2(stock + unidadesEnTransitoHoy)]))

\* the month loop, lines 649-717
RECURSIVE RecalculateMonths(_, _, _, _)
RecalculateMonths(product, todosLosPedidos, transito, i) ==
    IF i > Len(product.PROYECCIONES) THEN product
    ELSE LET projection == product.PROYECCIONES[i]
             stockInicial == StockInicialMes(product, i)
             diario == SimulateDays(projection, transito,
                           ParseLocal(projection.fecha_inicio_mes),
                           ParseLocal(projection.fecha_fin_mes),
                           stockInicial, todosLosPedidos, ResetDiario(projection))
             started == [projection EXCEPT !.stock_diario_proyectado = diario,
                                           !.stock_inicial_mes = stockInicial]
             finished == IF Len(diario) > 0
                         THEN _updateMonthlyProjectionTotals(started, diario[Len(diario)], product)
                         ELSE started
         IN RecalculateMonths([product EXCEPT !.PROYECCIONES[i] = finished],
                              todosLosPedidos, transito, i + 1)

_recalculateProjections(product) ==
    LET todosLosPedidos == TodosLosPedidos(product)
    IN RecalculateMonths(product, todosLosPedidos,
                         UnidadesEnTransitoPorFecha(product, todosLosPedidos), 1)

\* ------------------------------------------------------ alert regenerator
\* variant: the ordered units are left out of the running total
AddOrderedUnitsNever(stockTotalSimulado, emit, unidadesAPedir) == stockTotalSimulado

\* line 795: stockTotalSimulado += unidadesAPedir, when an alert was pushed
AddOrderedUnits(stockTotalSimulado, emit, unidadesAPedir) ==
    IF emit THEN stockTotalSimulado + unidadesAPedir ELSE stockTotalSimulado

\* the day loop, lines 744-810; besides the alerts it pushes, the loop's two
\* running balances (stockFisicoSimulado, stockTotalSimulado) are recorded as
\* they stand at the end of each day
RECURSIVE RegenerateDays(_, _, _, _, _, _, _)
RegenerateDays(product, manualPedidos, fechaSimulacion, stockFisicoSimulado, stockTotalSimulado, newAlerts, balances) ==
    IF fechaSimulacion > FechaFinal(product)
    THEN [newAlerts |-> newAlerts, balances |-> balances]
    ELSE LET fechaSimulacionStr == toISODate(fechaSimulacion)
             mesKey == MonthKeyOf(fechaSimulacion)
             pi == FindProjection(product, mesKey)
         IN IF pi = 0
            THEN RegenerateDays(product, manualPedidos, _addDays(fechaSimulacion, 1),
                                stockFisicoSimulado, stockTotalSimulado, newAlerts,
                                balances)
            ELSE LET projection == product.PROYECCIONES[pi]
                     pedidosRecibidos ==
                         SumUnidades(SelectSeq(manualPedidos,
                             LAMBDA p : p.fecha_arribo = fechaSimulacionStr))
                     fisico == stockFisicoSimulado + pedidosRecibidos
                     total == stockTotalSimulado + pedidosRecibidos
                     leadTime == _getEffectiveLeadTime(product, mesKey)
                     consumoLeadTime == projection.consumo_diario * leadTime
                     deficit == projection.punto_reorden - total + consumoLeadTime
                     cajasAPedir == IF product.UNIDADES_POR_CAJA > 0
                                    THEN Ceil(deficit, product.UNIDADES_POR_CAJA)
                                    ELSE 0
                     unidadesAPedir == cajasAPedir * product.UNIDADES_POR_CAJA
                     emit == total <= projection.punto_reorden /\ unidadesAPedir > 0
                     nuevaAlerta ==
                         [fecha_alerta |-> fechaSimulacionStr,
                          fecha_arribo |-> toISODate(_addDays(fechaSimulacion, leadTime)),
                          unidades |-> toFixed2(unidadesAPedir),
                          cajas_pedir |-> cajasAPedir,
                          lead_time_especifico |-> leadTime]
                     consumoHoy == projection.consumo_diario
                     fisicoFinal == Max0(fisico - consumoHoy)
                     totalFinal ==
                         Max0(AddOrderedUnits(total, emit, unidadesAPedir) - consumoHoy)
                 IN RegenerateDays(product, manualPedidos,
                        _addDays(fechaSimulacion, 1), fisicoFinal, totalFinal,
                        IF emit THEN Append(newAlerts, nuevaAlerta) ELSE newAlerts,
                        Append(balances, [fecha |-> fechaSimulacionStr,
                                          stockFisicoSimulado |-> fisicoFinal,
                                          stockTotalSimulado |-> totalFinal]))

\* the loop as _regenerateAlertsAndOrders starts it (lines 729-742)
RegenerateLoop(product) ==
    RegenerateDays(product, ManualPedidos(product), ParseLocal(product.FECHA_INICIAL),
                   product.STOCK_TOTAL, product.STOCK_TOTAL, <<>>, <<>>)

_regenerateAlertsAndOrders(product) == RegenerateLoop(product).newAlerts

\* variant: the pass takes the manual orders out of the product's list
RegenerateRunConsuming(product) ==
    [product |-> [product EXCEPT !.PEDIDOS_POR_LLEGAR =
                      SelectSeq(@, LAMBDA p : ~p.isManual)],
     newAlerts |-> _regenerateAlertsAndOrders(product)]

\* one run of the regenerator: the list it returns and the product object
\* as the run leaves it (the pass reads product and assigns none of its fields)
RegenerateRun(product) ==
    [product |-> product, newAlerts |-> _regenerateAlertsAndOrders(product)]


\* ------------------------------------------------------ headline metrics
\* variant: the metrics follow the first month's effective parameters
UpdateMainProductMetricsMonthly(product) ==
    LET mes == product.PROYECCIONES[1].mes
        ss == _getEffectiveSafetyStock(product, mes)
        rop == product.CONSUMO_DIARIO * _getEffectiveLeadTime(product, mes) + ss
        deficit == Max0(rop - product.STOCK_TOTAL)
        cajas == IF product.UNIDADES_POR_CAJA > 0
                 THEN Ceil(deficit, product.UNIDADES_POR_CAJA) ELSE 0
    IN [product EXCEPT !.STOCK_SEGURIDAD = ss,
                       !.PUNTO_REORDEN = rop,
                       !.DEFICIT = deficit,
                       !.CAJAS_A_PEDIR = cajas,
                       !.UNIDADES_A_PEDIR = cajas * product.UNIDADES_POR_CAJA]

_updateMainProductMetrics(product) ==
    LET defaultLeadTime == IF Truthy(product.CONFIGURACION, "LEAD_TIME_DAYS")
                           THEN product.CONFIGURACION.LEAD_TIME_DAYS
                           ELSE defaultLeadTimeDays
        ss == _getEffectiveSafetyStock(product, NullKey)
        rop == product.CONSUMO_DIARIO * defaultLeadTime + ss
        deficit == Max0(rop - product.STOCK_TOTAL)
        cajas == IF product.UNIDADES_POR_CAJA > 0
                 THEN Ceil(deficit, product.UNIDADES_POR_CAJA) ELSE 0
    IN [product EXCEPT !.STOCK_SEGURIDAD = ss,
                       !.PUNTO_REORDEN = rop,
                       !.DEFICIT = deficit,
                       !.CAJAS_A_PEDIR = cajas,
                       !.UNIDADES_A_PEDIR = cajas * product.UNIDADES_POR_CAJA]

\* ------------------------------------------------- override orchestrator
\* variant: the safety stock enters the reorder point with the wrong sign
RefreshProjectionParamsSign(product) ==
    [product EXCEPT !.PROYECCIONES =
        [i \in DOMAIN product.PROYECCIONES |->
            LET proj == product.PROYECCIONES[i]
                ss == _getEffectiveSafetyStock(product, proj.mes)
                leadTime == _getEffectiveLeadTime(product, proj.mes)
            IN [proj EXCEPT
                  !.stock_seguridad = toFixed2(ss),
                  !.lead_time_days = leadTime,
                  !.punto_reorden = toFixed2(proj.consumo_diario * leadTime - ss),
                  !.stock_seguridad_source = SafetyStockSource(product, proj.mes)]]]

\* lines 506-518: refresh safety stock, lead time and reorder point per month
RefreshProjectionParams(product) ==
    [product EXCEPT !.PROYECCIONES =
        [i \in DOMAIN product.PROYECCIONES |->
            LET proj == product.PROYECCIONES[i]
                ss == _getEffectiveSafetyStock(product, proj.mes)
                leadTime == _getEffectiveLeadTime(product, proj.mes)
            IN [proj EXCEPT
                  !.stock_seguridad = toFixed2(ss),
                  !.lead_time_days = leadTime,
                  !.punto_reorden = toFixed2(proj.consumo_diario * leadTime + ss),
                  !.stock_seguridad_source = SafetyStockSource(product, proj.mes)]]]

\* variant: the old alerts are not cleared before the new ones are attached
ClearAlertsKeep(product) == product

\* line 522: PROYECCIONES.forEach((p) => (p.alertas_y_pedidos = []))
ClearAlerts(product) ==
    [product EXCEPT !.PROYECCIONES =
        [i \in DOMAIN product.PROYECCIONES |->
            [product.PROYECCIONES[i] EXCEPT !.alertas_y_pedidos = <<>>]]]

\* lines 527-555: push every new alert onto the projection of its month
RECURSIVE AttachAlerts(_, _)
AttachAlerts(product, newAlerts) ==
    IF newAlerts = <<>> THEN product
    ELSE LET alert == Head(newAlerts)
             alertMonthKey == MonthKeyOf(ParseLocal(alert.fecha_alerta))
             pi == FindProjection(product, alertMonthKey)
         IN AttachAlerts(
                IF pi = 0 THEN product
                ELSE [product EXCEPT !.PROYECCIONES[pi].alertas_y_pedidos =
                          Append(@, alert)],
                Tail(newAlerts))

\* variant: the alerts are regenerated whatever the caller asked
RegenerateAlways(product, regenerateAlerts) ==
    LET run == RegenerateRun(ClearAlerts(product))
    IN AttachAlerts(run.product, run.newAlerts)

\* variant: the alerts are never regenerated
RegenerateNever(product, regenerateAlerts) == product

\* lines 520-556
RegenerateIfAsked(product, regenerateAlerts) ==
    IF regenerateAlerts
    THEN LET run == RegenerateRun(ClearAlerts(product))
         IN AttachAlerts(run.product, run.newAlerts)
    ELSE product

\* variant: the simulator runs before the alerts are regenerated
RecalculateSimulateFirst(productToUpdate, regenerateAlerts) ==
    _updateMainProductMetrics(
        RegenerateIfAsked(
            _recalculateProjections(RefreshProjectionParams(productToUpdate)),
            regenerateAlerts))

\* lines 505-559: everything between updateFunction and the upload
Recalculate(productToUpdate, regenerateAlerts) ==
    _updateMainProductMetrics(
        _recalculateProjections(
            RegenerateIfAsked(RefreshProjectionParams(productToUpdate),
                              regenerateAlerts)))

\* predictions.findIndex((p) => p.CODIGO === productCode); 0 stands for -1
_findProductIndex(predictions, productCode) ==
    LET hits == {i \in DOMAIN predictions : predictions[i].CODIGO = productCode}
    IN IF hits = {} THEN 0 ELSE CHOOSE i \in hits : \A j \in hits : i <= j

\* <<projection, position>> of the first alert whose fecha_alerta is alertId,
\* <<0, 0>> when there is none
_findAlert(product, alertId) ==
    LET hits == {i \in DOMAIN product.PROYECCIONES :
                    \E j \in DOMAIN product.PROYECCIONES[i].alertas_y_pedidos :
                        product.PROYECCIONES[i].alertas_y_pedidos[j].fecha_alerta = alertId}
    IN IF hits = {} THEN <<0, 0>>
       ELSE LET i == CHOOSE h \in hits : \A k \in hits : h <= k
                as == product.PROYECCIONES[i].alertas_y_pedidos
                j == CHOOSE a \in DOMAIN as :
                         /\ as[a].fecha_alerta = alertId
                         /\ \A b \in DOMAIN as : as[b].fecha_alerta = alertId => a <= b
            IN <<i, j>>

\* variant: the map is made anew with the one key
SetKeyOnly(obj, key, value) == [k \in {key} |-> value]

\* obj[key] = value on a JS object used as a map
SetKey(obj, key, value) ==
    [k \in DOMAIN obj \cup {key} |-> IF k = key THEN value ELSE obj[k]]

\* ------------------------------------------------------ update functions
\* projectionIndex is 0-based as in the request
ValidProjectionIndex(product, projectionIndex) ==
    projectionIndex >= 0 /\ projectionIndex < Len(product.PROYECCIONES)

UpdateSafetyStock(product, projectionIndex, newSafetyStock) ==
    LET projectionMonthKey == product.PROYECCIONES[projectionIndex + 1].mes
    IN [product EXCEPT !.CONFIGURACION.OVERRIDES.SAFETY_STOCK =
            SetKey(@, projectionMonthKey, newSafetyStock)]

UpdateLeadTime(product, projectionIndex, newLeadTime) ==
    LET projectionMonthKey == product.PROYECCIONES[projectionIndex + 1].mes
    IN [product EXCEPT !.CONFIGURACION.OVERRIDES.LEAD_TIME_DAYS =
            SetKey(@, projectionMonthKey, newLeadTime)]

\* updates carries "unidades" and/or "lead_time_especifico"
UpdateAlertFields(product, alertId, updates) ==
    LET at == _findAlert(product, alertId)
        alert == product.PROYECCIONES[at[1]].alertas_y_pedidos[at[2]]
        a1 == IF "unidades" \in DOMAIN updates
              THEN [alert EXCEPT !.unidades = updates.unidades] ELSE alert
        a2 == IF "lead_time_especifico" \in DOMAIN updates
              THEN LET a == [a1 EXCEPT !.lead_time_especifico = updates.lead_time_especifico]
                   IN [a EXCEPT !.fecha_arribo = _recalculateArrivalDate(a)]
              ELSE a1
    IN [product EXCEPT !.PROYECCIONES[at[1]].alertas_y_pedidos[at[2]] = a2]

\* variant: the new order replaces the list instead of joining it
UpdateManualTransitReplacing(product, units, expectedArrivalDate) ==
    [product EXCEPT !.PEDIDOS_POR_LLEGAR =
        <<[unidades |-> units, fecha_arribo |-> expectedArrivalDate,
           isManual |-> TRUE]>>]

\* lines 432-442: push the manual order onto PEDIDOS_POR_LLEGAR
UpdateManualTransit(product, units, expectedArrivalDate) ==
    [product EXCEPT !.PEDIDOS_POR_LLEGAR =
        Append(@, [unidades |-> units, fecha_arribo |-> expectedArrivalDate,
                   isManual |-> TRUE])]


\* ------------------------------------------------------------------ state
VARIABLES
    storage,       \* the analysis document in the bucket: the list of products
    req,           \* per request slot: the override request being served
    activityLog,   \* per request slot: action types the request has logged
    opsStarted,    \* requests accepted so far
    uploads,       \* successful overwrites of the document so far
    script,        \* the forecasting subprocess of createAnalysisFromExcel
    lastSentDates, \* AlertService: product code -> day of the last alert email
    alertCalls,    \* per request slot: the evaluarYEnviarAlerta call in flight
    outbox,        \* emails handed to the mail transport and accepted by it
    hoy            \* the calendar day of the server clock

vars == <<storage, req, activityLog, opsStarted, uploads, script, lastSentDates, alertCalls, outbox, hoy>>

\* the state of the subprocess run and of the alert emails
scriptVars == <<script>>

alertVars == <<lastSentDates, alertCalls, outbox, hoy>>

Slots == {1, 2}

\* ------------------------------------------------- the upstream document
InitialProjection(code, m) ==
    [mes |-> m,
     fecha_inicio_mes |-> (m - 1) * MonthLen,
     fecha_fin_mes |-> m * MonthLen - 1,
     consumo_diario |-> IF code = "P1" THEN (IF m % 2 = 1 THEN 3333 ELSE 2500) ELSE 1250,
     stock_inicial_mes |-> 0, stock_proyectado_mes |-> 0,
     unidades_en_transito |-> 0, stock_total_proyectado |-> 0,
     stock_seguridad |-> 0, stock_seguridad_source |-> "Calculado",
     lead_time_days |-> 0, punto_reorden |-> 0, indicador_riesgo |-> "Bajo",
     stock_diario_proyectado |-> <<>>, alertas_y_pedidos |-> <<>>]

InitialConfiguration(code) ==
    IF code = "P1"
    THEN [LEAD_TIME_DAYS |-> 2, NIVEL_SERVICIO |-> 9999,
          SAFETY_STOCK_SOURCE |-> "Manual", SAFETY_STOCK |-> 4000,
          OVERRIDES |-> [LEAD_TIME_DAYS |-> <<>>, SAFETY_STOCK |-> <<>>]]
    ELSE [NIVEL_SERVICIO |-> 9999, SAFETY_STOCK_SOURCE |-> "Calculado",
          OVERRIDES |-> [LEAD_TIME_DAYS |-> <<>>, SAFETY_STOCK |-> <<>>]]

InitialProduct(code) ==
    [CODIGO |-> code,
     STOCK_TOTAL |-> IF code = "P1" THEN 12000 ELSE 30000,
     CONSUMO_DIARIO |-> IF code = "P1" THEN 3333 ELSE 1250,
     SIGMA_D |-> 1500,
     UNIDADES_POR_CAJA |-> IF code = "P1" THEN 5000 ELSE 12000,
     FECHA_INICIAL |-> 0,
     CONFIGURACION |-> InitialConfiguration(code),
     PROYECCIONES |-> [m \in 1..NumMonths |-> InitialProjection(code, m)],
     PEDIDOS_POR_LLEGAR |-> <<>>,
     STOCK_SEGURIDAD |-> 0, PUNTO_REORDEN |-> 0, DEFICIT |-> 0,
     CAJAS_A_PEDIR |-> 0, UNIDADES_A_PEDIR |-> 0]

\* the forecast document as first stored: the products with their alerts and
\* trajectories already derived
InitialDocument ==
    << Recalculate(InitialProduct("P1"), TRUE), Recalculate(InitialProduct("P2"), TRUE) >>

\* --------------------------------------------------------------- requests
SafetyStockRequests ==
    {[kind |-> "ss", analysisFound |-> TRUE, productCode |-> t[1],
      projectionIndex |-> t[2], newSafetyStock |-> t[3]] :
        t \in ({"P1"} \X {0, NumMonths - 1} \X {0, 5004})
              \cup {<<"P2", 0, 5004>>, <<"PX", 0, 5004>>,
                    <<"P1", NumMonths, 5004>>, <<"P1", 0, -1000>>}}
    \cup {[kind |-> "ss", analysisFound |-> FALSE, productCode |-> "P1",
           projectionIndex |-> 0, newSafetyStock |-> 5004]}

LeadTimeRequests ==
    {[kind |-> "lt", analysisFound |-> TRUE, productCode |-> t[1],
      projectionIndex |-> t[2], newLeadTime |-> t[3]] :
        t \in ({"P1"} \X {0, NumMonths - 1} \X {0, 1})
              \cup {<<"P2", 0, 1>>, <<"PX", 0, 1>>,
                    <<"P1", NumMonths, 1>>, <<"P1", 0, -1>>}}
    \cup {[kind |-> "lt", analysisFound |-> FALSE, productCode |-> "P1",
           projectionIndex |-> 0, newLeadTime |-> 1]}

\* alert ids a client can know: the alert dates of the stored products, and
\* one date that carries no alert
AlertIds(product) ==
    {FlatAlerts(product.PROYECCIONES)[i].fecha_alerta :
        i \in DOMAIN FlatAlerts(product.PROYECCIONES)}

AlertUpdates ==
    {[unidades |-> 7000], [lead_time_especifico |-> 1],
     [unidades |-> 7000, lead_time_especifico |-> 1]}

AlertRequests ==
    UNION {{[kind |-> "alert", analysisFound |-> TRUE,
             productCode |-> storage[i].CODIGO, alertId |-> t[1], updates |-> t[2]] :
                t \in (AlertIds(storage[i]) \cup {-1}) \X AlertUpdates} :
           i \in DOMAIN storage}
    \cup {[kind |-> "alert", analysisFound |-> b, productCode |-> c,
           alertId |-> 0, updates |-> [unidades |-> 7000]] :
             <<b, c>> \in {<<FALSE, "P1">>, <<TRUE, "PX">>}}

TransitRequests ==
    {[kind |-> "transit", analysisFound |-> TRUE, productCode |-> t[1],
      units |-> t[2], expectedArrivalDate |-> t[3]] :
        t \in ({"P1"} \X {6000} \X {1, MonthLen + 1})
              \cup {<<"P2", 6000, 1>>, <<"PX", 6000, 1>>, <<"P1", 0, 1>>}}
    \cup {[kind |-> "transit", analysisFound |-> FALSE, productCode |-> "P1",
           units |-> 6000, expectedArrivalDate |-> 1]}

OverrideActionType(kind) ==
    CASE kind = "ss" -> "OVERRIDE_SS"
      [] kind = "lt" -> "OVERRIDE_LT"
      [] kind = "alert" -> "UPDATE_ALERT"
      [] kind = "transit" -> "ADD_TRANSIT"

OverrideActionTypes == {"OVERRIDE_SS", "OVERRIDE_LT", "UPDATE_ALERT", "ADD_TRANSIT"}

RegenerateAlertsFlag(kind) == kind \in {"ss", "lt"}

\* activityLogService.createLog: the entry is appended, or the write fails
\* and the failure is swallowed
createLog(log, actionType) == {Append(log, actionType), log}

Free(s) == req[s].pc \in {"idle", "done", "failed"}

IdleReq ==
    [pc |-> "idle", op |-> [kind |-> "none"], failedAt |-> "none",
     predictions |-> <<>>, productIndex |-> 0, seen |-> <<>>, startedAt |-> 0,
     loaded |-> <<>>, loadedAt |-> 0, wrote |-> FALSE, uploadedAs |-> 0]

NewReq(op) ==
    [IdleReq EXCEPT !.pc = "started", !.op = op, !.seen = storage,
                    !.startedAt = uploads]

Failed(r, stage) == [r EXCEPT !.pc = "failed", !.failedAt = stage]

\* the update function of a request applied to a product; Applicable says
\* whether it returns rather than throws
Applicable(op, product) ==
    CASE op.kind = "ss" -> ValidProjectionIndex(product, op.projectionIndex)
      [] op.kind = "lt" -> ValidProjectionIndex(product, op.projectionIndex)
      [] op.kind = "alert" -> _findAlert(product, op.alertId) # <<0, 0>>
      [] op.kind = "transit" -> TRUE

updateFunction(op, product) ==
    CASE op.kind = "ss" -> UpdateSafetyStock(product, op.projectionIndex, op.newSafetyStock)
      [] op.kind = "lt" -> UpdateLeadTime(product, op.projectionIndex, op.newLeadTime)
      [] op.kind = "alert" -> UpdateAlertFields(product, op.alertId, op.updates)
      [] op.kind = "transit" -> UpdateManualTransit(product, op.units, op.expectedArrivalDate)

\* variant: no argument check
ValidArgumentsNone(op) == TRUE

\* the argument checks made before anything is loaded
ValidArguments(op) ==
    CASE op.kind = "ss" -> op.newSafetyStock >= 0
      [] op.kind = "lt" -> op.newLeadTime >= 0
      [] op.kind = "alert" -> TRUE
      [] op.kind = "transit" -> op.units > 0

\* the public method up to its call of _applyOverrideAndRecalculate: argument
\* checks, then getAnalysisData and the lookups on what it returned
Enter(s, op) ==
    /\ Free(s)
    /\ opsStarted < MaxOps
    /\ opsStarted' = opsStarted + 1
    /\ UNCHANGED <<storage, uploads, scriptVars, alertVars>>
    /\ IF ~ValidArguments(op)
       THEN /\ req' = [req EXCEPT ![s] = Failed(NewReq(op), "validate")]
            /\ activityLog' = [activityLog EXCEPT ![s] = <<>>]
       ELSE IF op.kind = "transit"
       THEN /\ req' = [req EXCEPT ![s] = NewReq(op)]
            /\ activityLog' = [activityLog EXCEPT ![s] = <<>>]
       ELSE IF ~op.analysisFound
       THEN /\ req' = [req EXCEPT ![s] = Failed(NewReq(op), "load")]
            /\ activityLog' = [activityLog EXCEPT ![s] = <<>>]
       ELSE /\ \E log \in createLog(<<>>, "ACCESS_ANALYSIS") :
                   activityLog' = [activityLog EXCEPT ![s] = log]
            /\ LET productIndex == _findProductIndex(storage, op.productCode)
               IN req' = [req EXCEPT ![s] =
                      IF productIndex = 0 THEN Failed(NewReq(op), "locate")
                      ELSE IF ~Applicable(op, storage[productIndex])
                           THEN Failed(NewReq(op), "validate")
                           ELSE NewReq(op)]

applySafetyStockToProjection(s) == \E op \in SafetyStockRequests : Enter(s, op)

applyLeadTimeToProjection(s) == \E op \in LeadTimeRequests : Enter(s, op)

updateAlert(s) == \E op \in AlertRequests : Enter(s, op)

addManualTransitUnits(s) == \E op \in TransitRequests : Enter(s, op)

\* _applyOverrideAndRecalculate from Analysis.findOne to the new document
\* held in memory (lines 490-564)
_applyOverrideAndRecalculate(s) ==
    /\ req[s].pc = "started"
    /\ UNCHANGED <<storage, opsStarted, uploads, scriptVars, alertVars>>
    /\ LET op == req[s].op
           predictions == storage
           productIndex == _findProductIndex(predictions, op.productCode)
       IN IF ~op.analysisFound
          THEN /\ req' = [req EXCEPT ![s] = Failed(@, "load")]
               /\ UNCHANGED activityLog
          ELSE /\ \E log \in createLog(activityLog[s], "ACCESS_ANALYSIS") :
                      activityLog' = [activityLog EXCEPT ![s] = log]
               /\ req' = [req EXCEPT ![s] =
                      IF productIndex = 0 THEN Failed(@, "locate")
                      ELSE IF ~Applicable(op, predictions[productIndex])
                           THEN Failed(@, "validate")
                           ELSE [@ EXCEPT
                                   !.pc = "computed",
                                   !.productIndex = productIndex,
                                   !.loaded = predictions,
                                   !.loadedAt = uploads,
                                   !.predictions =
                                       [predictions EXCEPT ![productIndex] =
                                           Recalculate(
                                               updateFunction(op, predictions[productIndex]),
                                               RegenerateAlertsFlag(op.kind))]]]

\* storageService.uploadFile with overwrite, then Analysis.update (lines 566-590)
UploadOutcomes == {"ok", "uploadError", "updateError"}

\* runScript not called yet
IdleScript ==
    [pc |-> "idle", process |-> "none", timer |-> "none", promise |-> "pending",
     exitCode |-> <<>>, closeCode |-> <<>>, errorLog |-> <<>>]

\* no evaluarYEnviarAlerta call in the slot
IdleCall == [pc |-> "idle", codigo |-> "none", isManual |-> FALSE, hoy |-> 0,
             result |-> "none", sentAt |-> 0]

\* the parts of the state an override never touches, as the server starts
IdleServices ==
    /\ script = IdleScript
    /\ lastSentDates = <<>>
    /\ alertCalls = [s \in Slots |-> IdleCall]
    /\ outbox = <<>>
    /\ hoy = 1

\* variant: the uploaded document holds the target product alone
OverwriteWithProduct(stored, predictions, productIndex) == <<predictions[productIndex]>>

\* variant: only the target product is replaced in the stored document
OverwriteProductOnly(stored, predictions, productIndex) ==
    [stored EXCEPT ![productIndex] = predictions[productIndex]]

\* upload with upsert: the object in the bucket becomes the uploaded buffer
Overwrite(stored, predictions, productIndex) == predictions

uploadFile(s) ==
    /\ req[s].pc = "computed"
    /\ UNCHANGED <<activityLog, opsStarted, scriptVars, alertVars>>
    /\ \E outcome \in UploadOutcomes :
          /\ storage' = IF outcome = "uploadError" THEN storage
                        ELSE Overwrite(storage, req[s].predictions, req[s].productIndex)
          /\ uploads' = IF outcome = "uploadError" THEN uploads ELSE uploads + 1
          /\ req' = [req EXCEPT ![s] =
                 IF outcome = "ok"
                 THEN [@ EXCEPT !.pc = "uploaded", !.wrote = TRUE,
                                !.uploadedAs = uploads + 1]
                 ELSE IF outcome = "updateError"
                 THEN [Failed(@, "persist") EXCEPT !.wrote = TRUE,
                                                   !.uploadedAs = uploads + 1]
                 ELSE Failed(@, "persist")]

\* variant: a failed write of the entry fails the request
AfterCreateLogStrict(r, written) ==
    IF written THEN [r EXCEPT !.pc = "done"] ELSE Failed(r, "audit")

\* the request once the awaited createLog has settled: createLog catches the
\* error of a failed write, so the caller goes on to return its result
AfterCreateLog(r, written) == [r EXCEPT !.pc = "done"]

\* the createLog call that follows _applyOverrideAndRecalculate, then return
recordOverride(s) ==
    /\ req[s].pc = "uploaded"
    /\ UNCHANGED <<storage, opsStarted, uploads, scriptVars, alertVars>>
    /\ \E log \in createLog(activityLog[s], OverrideActionType(req[s].op.kind)) :
          /\ activityLog' = [activityLog EXCEPT ![s] = log]
          /\ req' = [req EXCEPT ![s] = AfterCreateLog(@, log # activityLog[s])]

Init ==
    /\ storage = InitialDocument
    /\ req = [s \in Slots |-> IdleReq]
    /\ activityLog = [s \in Slots |-> <<>>]
    /\ opsStarted = 0
    /\ uploads = 0
    /\ IdleServices

\* requests served one after the other
Next ==
    \/ applySafetyStockToProjection(1)
    \/ applyLeadTimeToProjection(1)
    \/ updateAlert(1)
    \/ addManualTransitUnits(1)
    \/ _applyOverrideAndRecalculate(1)
    \/ uploadFile(1)
    \/ recordOverride(1)

Spec == Init /\ [][Next]_vars

\* two requests in flight on the same analysis
RaceRequests ==
    {op \in SafetyStockRequests \cup LeadTimeRequests \cup TransitRequests :
        /\ op.analysisFound /\ ValidArguments(op)
        /\ \/ op.productCode = "P2" /\ op.kind = "lt"
           \/ op.productCode = "P1" /\ op.kind = "transit" /\ op.expectedArrivalDate = 1
           \/ op.productCode = "P1" /\ op.kind = "ss"
              /\ op.projectionIndex = 0 /\ op.newSafetyStock > 0}

override(s) == \E op \in RaceRequests : Enter(s, op)

RaceNext ==
    \/ \E s \in Slots : override(s)
    \/ \E s \in Slots : _applyOverrideAndRecalculate(s)
    \/ \E s \in Slots : uploadFile(s)
    \/ \E s \in Slots : recordOverride(s)

RaceSpec == Init /\ [][RaceNext]_vars

\* ------------------------------------------- the engine on varied products
\* products as the upstream forecast can deliver them: stock from none to
\* 100 units, no consumption or 10 a day, lead time configured or left to the
\* default, safety stock manual (0 or 4) or calculated, with and without a
\* box size, with and without pending orders
ProbeStocks == {0, 4000, 100000}

ProbeConsumos == {0, 10000}

ProbeBoxes == {0, 50000}

ProbeConfigurations ==
    {[NIVEL_SERVICIO |-> 9999, SAFETY_STOCK_SOURCE |-> "Manual", SAFETY_STOCK |-> 0,
      OVERRIDES |-> [LEAD_TIME_DAYS |-> <<>>, SAFETY_STOCK |-> <<>>]],
     [LEAD_TIME_DAYS |-> 2, NIVEL_SERVICIO |-> 9999,
      SAFETY_STOCK_SOURCE |-> "Manual", SAFETY_STOCK |-> 4000,
      OVERRIDES |-> [LEAD_TIME_DAYS |-> <<>>, SAFETY_STOCK |-> <<>>]],
     [LEAD_TIME_DAYS |-> 2, NIVEL_SERVICIO |-> 9999, SAFETY_STOCK_SOURCE |-> "Calculado",
      OVERRIDES |-> [LEAD_TIME_DAYS |-> <<>>, SAFETY_STOCK |-> <<>>]]}

ProbePedidos ==
    {<<>>,
     <<[unidades |-> 20000, fecha_arribo |-> 0, isManual |-> TRUE]>>,
     <<[unidades |-> 20000, fecha_arribo |-> 1, isManual |-> TRUE],
       [unidades |-> 9000, fecha_arribo |-> 2, isManual |-> FALSE],
       [unidades |-> 20000, fecha_arribo |-> MonthLen + 1, isManual |-> TRUE]>>}

ProbeProduct(stock, consumo, configuracion, box, pedidos) ==
    LET base == InitialProduct("P1")
    IN [base EXCEPT
          !.STOCK_TOTAL = stock,
          !.CONSUMO_DIARIO = consumo,
          !.UNIDADES_POR_CAJA = box,
          !.CONFIGURACION = configuracion,
          !.PEDIDOS_POR_LLEGAR = pedidos,
          !.PROYECCIONES = [m \in DOMAIN base.PROYECCIONES |->
                               [base.PROYECCIONES[m] EXCEPT !.consumo_diario = consumo]]]

ProbeDocuments ==
    {<<Recalculate(ProbeProduct(stock, consumo, configuracion, box, pedidos), TRUE)>> :
        stock \in ProbeStocks, consumo \in ProbeConsumos,
        configuracion \in ProbeConfigurations, box \in ProbeBoxes,
        pedidos \in ProbePedidos}

EngineInit ==
    /\ storage \in ProbeDocuments
    /\ req = [s \in Slots |-> IdleReq]
    /\ activityLog = [s \in Slots |-> <<>>]
    /\ opsStarted = 0
    /\ uploads = 0
    /\ IdleServices

EngineRequests ==
    {op \in SafetyStockRequests \cup LeadTimeRequests \cup TransitRequests
                \cup AlertRequests :
        /\ op.analysisFound /\ ValidArguments(op) /\ op.productCode = "P1"
        /\ \/ op.kind = "transit" /\ op.expectedArrivalDate = 1
           \/ op.kind = "ss" /\ op.projectionIndex = 0 /\ op.newSafetyStock > 0
           \/ op.kind = "lt" /\ op.projectionIndex = NumMonths - 1 /\ op.newLeadTime > 0
           \/ op.kind = "alert" /\ op.alertId >= 0
              /\ DOMAIN op.updates = {"unidades", "lead_time_especifico"}}

engineOverride(s) == \E op \in EngineRequests : Enter(s, op)

EngineNext ==
    \/ engineOverride(1)
    \/ _applyOverrideAndRecalculate(1)
    \/ uploadFile(1)
    \/ recordOverride(1)

EngineSpec == EngineInit /\ [][EngineNext]_vars

\* ------------------------------------------------ the forecasting subprocess
\* exit codes of the script; -1 stands for the null code of a process ended
\* by a signal
ExitCodes == {0, 1}

SignalCodes == {-1, 0, 1}

\* resolve and reject act on a pending promise only
Settle(promise, outcome) == IF promise = "pending" THEN outcome ELSE promise

\* variant: any close resolves
CloseOutcomeAlways(code) == "resolved"

\* the close handler, lines 1039-1045
CloseOutcome(code) == IF code = 0 THEN "resolved" ELSE "rejectedExit"

\* createAnalysisFromExcel up to its await of runScript: the process is
\* spawned and the timeout armed (lines 1018-1026)
runScript ==
    /\ script.pc = "idle"
    /\ script' = [script EXCEPT !.pc = "awaiting", !.process = "running",
                                !.timer = "armed"]
    /\ UNCHANGED <<storage, req, activityLog, opsStarted, uploads, alertVars>>

\* stderr "data": errorLog += data (lines 1032-1035)
onStderrData ==
    /\ script.process \in {"running", "killed", "exited"}
    /\ Len(script.errorLog) < MaxChunks
    /\ script' = [script EXCEPT !.errorLog = Append(@, "Traceback")]
    /\ UNCHANGED <<storage, req, activityLog, opsStarted, uploads, alertVars>>

\* the process ends: by itself with an exit code, or after kill() with the
\* null code or with the code its signal handler chose
processExit ==
    /\ script.process \in {"running", "killed"}
    /\ \E code \in (IF script.process = "killed" THEN SignalCodes ELSE ExitCodes) :
          script' = [script EXCEPT !.process = "exited", !.exitCode = <<code>>]
    /\ UNCHANGED <<storage, req, activityLog, opsStarted, uploads, alertVars>>

\* the "close" handler (lines 1037-1046)
onClose ==
    /\ script.process = "exited"
    /\ script' = [script EXCEPT
                     !.process = "closed",
                     !.closeCode = script.exitCode,
                     !.timer = IF @ = "armed" THEN "cleared" ELSE @,
                     !.promise = Settle(@, CloseOutcome(script.exitCode[1]))]
    /\ UNCHANGED <<storage, req, activityLog, opsStarted, uploads, alertVars>>

\* the timeout callback (lines 1023-1026): kill, then reject
onTimeout ==
    /\ script.timer = "armed"
    /\ script' = [script EXCEPT
                     !.timer = "fired",
                     !.process = IF @ = "running" THEN "killed" ELSE @,
                     !.promise = Settle(@, "rejectedTimeout")]
    /\ UNCHANGED <<storage, req, activityLog, opsStarted, uploads, alertVars>>

\* createAnalysisFromExcel after the await (lines 48-93): the output is
\* uploaded and logged, or the error is rethrown
afterRunScript ==
    /\ script.pc = "awaiting" /\ script.promise # "pending"
    /\ UNCHANGED <<req, opsStarted, alertVars>>
    /\ IF script.promise # "resolved"
       THEN /\ script' = [script EXCEPT !.pc = "failed"]
            /\ UNCHANGED <<storage, activityLog, uploads>>
       ELSE \/ /\ script' = [script EXCEPT !.pc = "failed"]
               /\ UNCHANGED <<storage, activityLog, uploads>>
            \/ /\ script' = [script EXCEPT !.pc = "created"]
               /\ storage' \in ProbeDocuments
               /\ uploads' = uploads + 1
               /\ \E log \in createLog(activityLog[1], "CREACION_ANALISIS") :
                      activityLog' = [activityLog EXCEPT ![1] = log]

\* no analysis yet
ScriptInit ==
    /\ storage = <<>>
    /\ req = [s \in Slots |-> IdleReq]
    /\ activityLog = [s \in Slots |-> <<>>]
    /\ opsStarted = 0
    /\ uploads = 0
    /\ IdleServices

ScriptNext ==
    \/ runScript
    \/ onStderrData
    \/ processExit
    \/ onClose
    \/ onTimeout
    \/ afterRunScript

\* the event loop runs a timer that is due and resumes a settled await
ScriptSpec ==
    ScriptInit /\ [][ScriptNext]_vars /\ WF_vars(onTimeout) /\ WF_vars(afterRunScript)

\* ------------------------------------------------------ alert emails
\* what evaluarYEnviarAlerta reads of a prediction: whether it is usable and
\* the first projection's coverage, flag and deficit
AlertPredictions ==
    {[success |-> TRUE, CODIGO |-> "P1", tiempo_cobertura |-> 4,
      alerta_stock |-> FALSE, deficit |-> 0],
     [success |-> TRUE, CODIGO |-> "P2", tiempo_cobertura |-> 30,
      alerta_stock |-> FALSE, deficit |-> 12000],
     [success |-> TRUE, CODIGO |-> "P1", tiempo_cobertura |-> 30,
      alerta_stock |-> FALSE, deficit |-> 0],
     [success |-> FALSE, CODIGO |-> "P1", tiempo_cobertura |-> 4,
      alerta_stock |-> TRUE, deficit |-> 0]}

\* lines 168-171
debeAlertar(prediction) ==
    prediction.tiempo_cobertura <= 10 \/ prediction.alerta_stock \/ prediction.deficit > 0

\* line 178: !isManual && this.lastSentDates.get(producto.CODIGO) === hoy
AlreadySent(cache, codigo, isManual, today) ==
    ~isManual /\ codigo \in DOMAIN cache /\ cache[codigo] = today

FreeCall(s) == alertCalls[s].pc \in {"idle", "returned"}

\* evaluarYEnviarAlerta up to its await of sendEmail (lines 157-189)
evaluarYEnviarAlerta(s) ==
    /\ FreeCall(s)
    /\ opsStarted < MaxOps
    /\ opsStarted' = opsStarted + 1
    /\ UNCHANGED <<storage, req, activityLog, uploads, scriptVars, lastSentDates, outbox, hoy>>
    /\ \E prediction \in AlertPredictions, isManual \in BOOLEAN :
          LET call == [IdleCall EXCEPT !.codigo = prediction.CODIGO,
                                       !.isManual = isManual, !.hoy = hoy]
          IN alertCalls' = [alertCalls EXCEPT ![s] =
                 IF ~prediction.success
                 THEN [call EXCEPT !.pc = "returned", !.result = "invalid"]
                 ELSE IF ~debeAlertar(prediction)
                 THEN [call EXCEPT !.pc = "returned", !.result = "notRequired"]
                 ELSE IF AlreadySent(lastSentDates, prediction.CODIGO, isManual, hoy)
                 THEN [call EXCEPT !.pc = "returned", !.result = "alreadySent"]
                 ELSE [call EXCEPT !.pc = "sending"]]

\* emailService.sendEmail: the transport accepts the mail, or it fails and
\* sendEmail throws
sendEmail(s) ==
    /\ alertCalls[s].pc = "sending"
    /\ UNCHANGED <<storage, req, activityLog, opsStarted, uploads, scriptVars, lastSentDates, hoy>>
    /\ \/ /\ outbox' = Append(outbox, [codigo |-> alertCalls[s].codigo,
                                        isManual |-> alertCalls[s].isManual,
                                        hoy |-> alertCalls[s].hoy, sentOn |-> hoy])
          /\ alertCalls' = [alertCalls EXCEPT ![s].pc = "mailed", ![s].sentAt = Len(outbox) + 1]
       \/ /\ outbox' = outbox
          /\ alertCalls' = [alertCalls EXCEPT ![s].pc = "mailError"]

\* evaluarYEnviarAlerta after the await (lines 196-218)
afterSendEmail(s) ==
    /\ alertCalls[s].pc \in {"mailed", "mailError"}
    /\ UNCHANGED <<storage, req, activityLog, opsStarted, uploads, scriptVars, outbox, hoy>>
    /\ IF alertCalls[s].pc = "mailed"
       THEN /\ lastSentDates' = IF alertCalls[s].isManual THEN lastSentDates
                                ELSE SetKey(lastSentDates, alertCalls[s].codigo,
                                            alertCalls[s].hoy)
            /\ alertCalls' = [alertCalls EXCEPT ![s].pc = "returned", ![s].result = "sent"]
       ELSE /\ lastSentDates' = lastSentDates
            /\ alertCalls' = [alertCalls EXCEPT ![s].pc = "returned", ![s].result = "error"]

\* midnight passes
nextDay ==
    /\ hoy < MaxDays
    /\ hoy' = hoy + 1
    /\ UNCHANGED <<storage, req, activityLog, opsStarted, uploads, scriptVars, lastSentDates, alertCalls, outbox>>

AlertNext ==
    \/ \E s \in Slots : evaluarYEnviarAlerta(s)
    \/ \E s \in Slots : sendEmail(s)
    \/ \E s \in Slots : afterSendEmail(s)
    \/ nextDay

\* calls of evaluarYEnviarAlerta from concurrent requests
AlertSpec == Init /\ [][AlertNext]_vars

\* the product a finished request returns
Result(s) == req[s].predictions[req[s].productIndex]


\* ------------------------------------------------------------- properties
\* a request that got as far as holding its recalculated document
HasResult(s) == req[s].productIndex # 0

\* the product as loaded by the request, and as its update function left it
LoadedProduct(s) == req[s].loaded[req[s].productIndex]

UpdatedProduct(s) == updateFunction(req[s].op, LoadedProduct(s))

\* every product held in the stored document or computed by a request
ReachedProducts ==
    {storage[i] : i \in DOMAIN storage} \cup {Result(s) : s \in {t \in Slots : HasResult(t)}}

Months(product) == DOMAIN product.PROYECCIONES

StockContinuity(product) ==
    /\ product.PROYECCIONES[1].stock_inicial_mes = product.STOCK_TOTAL
    /\ \A i \in Months(product) \ {1} :
          product.PROYECCIONES[i].stock_inicial_mes
              = product.PROYECCIONES[i - 1].stock_proyectado_mes

\* C1: after the simulator has run, in every product (stored, or computed by
\* an override after any sequence of overrides) each month starts with the
\* stock the previous month ended with, and the first month starts with
\* STOCK_TOTAL.
C1_StockContinuity == \A product \in ReachedProducts : StockContinuity(product)

\* a second override has run the simulator on a product that has units in
\* transit at the end of its first month and stock left for the second
C1_Witness ==
    \E s \in Slots :
        /\ req[s].pc = "done" /\ opsStarted >= 2
        /\ Result(s).PROYECCIONES[1].unidades_en_transito > 0
        /\ Result(s).PROYECCIONES[2].stock_inicial_mes > 0

ReorderPointOf(product, i) ==
    LET proj == product.PROYECCIONES[i]
    IN proj.consumo_diario * _getEffectiveLeadTime(product, proj.mes)
           + _getEffectiveSafetyStock(product, proj.mes)

\* C2: in the product computed, returned and stored by any override, every
\* month's punto_reorden is consumo_diario x effective lead time + effective
\* safety stock, within 0.01.
C2_ReorderPoint ==
    \A product \in ReachedProducts : \A i \in Months(product) :
        Abs(product.PROYECCIONES[i].punto_reorden - ReorderPointOf(product, i)) <= 10

\* an override returned a product with a month that has both overrides in
\* force and a reorder point that had to be rounded
C2_Witness ==
    \E s \in Slots :
        /\ req[s].pc = "done"
        /\ \E i \in Months(Result(s)) :
              /\ Truthy(Result(s).CONFIGURACION.OVERRIDES.SAFETY_STOCK, i)
              /\ Truthy(Result(s).CONFIGURACION.OVERRIDES.LEAD_TIME_DAYS, i)
              /\ Result(s).PROYECCIONES[i].punto_reorden # ReorderPointOf(Result(s), i)

\* the product handed to the simulator by the request, and one run on it
SimulatorInput(s) ==
    RegenerateIfAsked(RefreshProjectionParams(UpdatedProduct(s)),
                      RegenerateAlertsFlag(req[s].op.kind))

\* C3: a second run of the simulator right after the first, on the product
\* the first run left, changes nothing: projections, trajectories, alerts and
\* pending orders are those of the first run.
C3_SimulatorIdempotent ==
    \A s \in Slots :
        req[s].pc = "computed" =>
            LET once == _recalculateProjections(SimulatorInput(s))
            IN _recalculateProjections(once) = once

\* the first run changed the product of a manual-transit request
C3_Witness ==
    \E s \in Slots :
        /\ req[s].pc = "computed" /\ req[s].op.kind = "transit"
        /\ _recalculateProjections(SimulatorInput(s)) # SimulatorInput(s)
        /\ Len(FlatAlerts(SimulatorInput(s).PROYECCIONES)) > 0


\* ---- safety-stock monotonicity
SafetyStockProbes == <<0, 5000, 5004, 9000>>

\* what apply-safety-stock with value v returns on the product the request loaded
SafetyStockOutcome(s, v) ==
    Recalculate(UpdateSafetyStock(LoadedProduct(s), req[s].op.projectionIndex, v), TRUE)

\* the outcomes for the first k probes, in the order of the probes
RECURSIVE SafetyStockOutcomes(_, _)
SafetyStockOutcomes(s, k) ==
    IF k = 0 THEN <<>>
    ELSE Append(SafetyStockOutcomes(s, k - 1), SafetyStockOutcome(s, SafetyStockProbes[k]))

AlertDates(product, i) ==
    {product.PROYECCIONES[i].alertas_y_pedidos[j].fecha_alerta :
        j \in DOMAIN product.PROYECCIONES[i].alertas_y_pedidos}

\* the first alert of month i in b is not earlier than in a (delayed or removed)
FirstAlertNotEarlier(b, a, i) ==
    \A db \in AlertDates(b, i) : \E da \in AlertDates(a, i) : da <= db

\* the first alert of month i in b is not later than in a (advanced or created)
FirstAlertNotLater(b, a, i) ==
    \A da \in AlertDates(a, i) : \E db \in AlertDates(b, i) : db <= da

\* C4 as claimed: of two apply-safety-stock runs that differ only in the
\* value, the larger value gives a strictly larger reorder point for the month
\* and a first alert in the month that is not earlier.
C4_AsClaimed ==
    \A s \in Slots :
        (req[s].pc = "done" /\ req[s].op.kind = "ss") =>
            LET outcomes == SafetyStockOutcomes(s, Len(SafetyStockProbes))
                i == req[s].op.projectionIndex + 1
            IN \A k1, k2 \in DOMAIN SafetyStockProbes :
                 SafetyStockProbes[k1] < SafetyStockProbes[k2] =>
                    /\ outcomes[k2].PROYECCIONES[i].punto_reorden
                          > outcomes[k1].PROYECCIONES[i].punto_reorden
                    /\ FirstAlertNotEarlier(outcomes[k2], outcomes[k1], i)

\* C4 amended: of two apply-safety-stock runs that differ only in the value,
\* the run that ends with the larger effective safety stock for the month has
\* a reorder point that is no smaller, strictly larger when the effective
\* values differ by 0.01 or more, and its first alert in the month is never
\* later than in the other run.
C4_Monotonic ==
    \A s \in Slots :
        (req[s].pc = "done" /\ req[s].op.kind = "ss") =>
            LET outcomes == SafetyStockOutcomes(s, Len(SafetyStockProbes))
                i == req[s].op.projectionIndex + 1
            IN \A k1, k2 \in DOMAIN SafetyStockProbes :
                 LET a == outcomes[k1]
                     b == outcomes[k2]
                     ea == _getEffectiveSafetyStock(a, a.PROYECCIONES[i].mes)
                     eb == _getEffectiveSafetyStock(b, b.PROYECCIONES[i].mes)
                 IN ea <= eb =>
                      /\ a.PROYECCIONES[i].punto_reorden <= b.PROYECCIONES[i].punto_reorden
                      /\ eb - ea >= 10 =>
                            a.PROYECCIONES[i].punto_reorden < b.PROYECCIONES[i].punto_reorden
                      /\ FirstAlertNotLater(b, a, i)

\* an apply-safety-stock request is done and a larger value would have
\* brought the month's first alert forward
C4_Witness ==
    \E s \in Slots :
        /\ req[s].pc = "done" /\ req[s].op.kind = "ss"
        /\ Result(s) = SafetyStockOutcome(s, req[s].op.newSafetyStock)
        /\ LET outcomes == SafetyStockOutcomes(s, Len(SafetyStockProbes))
               i == req[s].op.projectionIndex + 1
           IN \E k1, k2 \in DOMAIN SafetyStockProbes :
                 /\ 0 < SafetyStockProbes[k1]
                 /\ SafetyStockProbes[k1] < SafetyStockProbes[k2]
                 /\ outcomes[k1].PROYECCIONES[i].punto_reorden
                       < outcomes[k2].PROYECCIONES[i].punto_reorden
                 /\ \E db \in AlertDates(outcomes[k2], i) :
                       \A da \in AlertDates(outcomes[k1], i) : db < da

\* ---- the regenerator leaves its input alone
\* the product the request handed to the regenerator
RegeneratorInput(s) == ClearAlerts(RefreshProjectionParams(UpdatedProduct(s)))

ConfiguredLeadTime(product) ==
    IF "LEAD_TIME_DAYS" \in DOMAIN product.CONFIGURACION
    THEN product.CONFIGURACION.LEAD_TIME_DAYS ELSE 20

\* C6: every month with a stored safety-stock override resolves to the
\* override value and reports "Manual"; every other month reports "Calculado"
\* and resolves to the manual product value or to the dynamic safety stock.
C6_SafetyStockResolution ==
    \A s \in Slots :
        (req[s].pc = "done" /\ req[s].op.kind = "ss") =>
            LET product == Result(s)
                stored == product.CONFIGURACION.OVERRIDES.SAFETY_STOCK
            IN \A i \in Months(product) :
                 LET mes == product.PROYECCIONES[i].mes
                 IN IF mes \in DOMAIN stored
                    THEN /\ _getEffectiveSafetyStock(product, mes) = stored[mes]
                         /\ product.PROYECCIONES[i].stock_seguridad_source = "Manual"
                    ELSE /\ product.PROYECCIONES[i].stock_seguridad_source = "Calculado"
                         /\ _getEffectiveSafetyStock(product, mes) =
                               IF product.CONFIGURACION.SAFETY_STOCK_SOURCE = "Manual"
                               THEN product.CONFIGURACION.SAFETY_STOCK
                               ELSE _calculateDynamicSafetyStock(product,
                                        ConfiguredLeadTime(product))

\* C7: the effective lead time of a month is the stored per-month override
\* when there is one, else the configured LEAD_TIME_DAYS, else 20; with the
\* null month key it is the configured value or 20.
C7_LeadTimeResolution ==
    \A product \in ReachedProducts :
        LET stored == product.CONFIGURACION.OVERRIDES.LEAD_TIME_DAYS
        IN /\ _getEffectiveLeadTime(product, NullKey) = ConfiguredLeadTime(product)
           /\ \A i \in Months(product) :
                 LET mes == product.PROYECCIONES[i].mes
                 IN _getEffectiveLeadTime(product, mes) =
                       IF mes \in DOMAIN stored THEN stored[mes]
                       ELSE ConfiguredLeadTime(product)

\* ---- failing requests
\* the request cannot succeed on the document it found: analysis absent,
\* product absent, negative value, projection index out of range, alert absent
InvalidInput(op, document) ==
    \/ ~op.analysisFound
    \/ \A i \in DOMAIN document : document[i].CODIGO # op.productCode
    \/ op.kind = "ss" /\ op.newSafetyStock < 0
    \/ op.kind = "lt" /\ op.newLeadTime < 0
    \/ op.kind = "transit" /\ op.units <= 0
    \/ op.kind \in {"ss", "lt"} /\ op.projectionIndex \notin 0..(NumMonths - 1)
    \/ op.kind = "alert"
       /\ \A i \in DOMAIN document :
             document[i].CODIGO = op.productCode =>
                 op.alertId \notin AlertIds(document[i])

EarlyFailure(s) ==
    req[s].pc = "failed" /\ req[s].failedAt \in {"load", "locate", "validate"}

Entries(s) == {activityLog[s][i] : i \in DOMAIN activityLog[s]}

\* C8 as claimed: a request that cannot succeed fails, and one that failed on
\* loading, locating or validating has not written the stored document and
\* has written no activity-log entry at all.
C8_AsClaimed ==
    \A s \in Slots :
        /\ (req[s].pc # "idle" /\ InvalidInput(req[s].op, req[s].seen)) =>
              \/ req[s].pc = "failed"
              \/ req[s].pc = "started" /\ req[s].op.kind = "transit"
        /\ EarlyFailure(s) =>
              /\ ~req[s].wrote
              /\ uploads = req[s].startedAt => storage = req[s].seen
              /\ activityLog[s] = <<>>

\* C8 amended: a request that cannot succeed fails, and one that failed on
\* loading, locating or validating has not written the stored document and
\* has written no override entry (OVERRIDE_SS, OVERRIDE_LT, UPDATE_ALERT,
\* ADD_TRANSIT); the only entries it can have written are the ACCESS_ANALYSIS
\* entries of the loads that succeeded.
C8_FailureLeavesNoTrace ==
    \A s \in Slots :
        /\ (req[s].pc # "idle" /\ InvalidInput(req[s].op, req[s].seen)) =>
              \/ req[s].pc = "failed"
              \/ req[s].pc = "started" /\ req[s].op.kind = "transit"
        /\ EarlyFailure(s) =>
              /\ ~req[s].wrote
              /\ uploads = req[s].startedAt => storage = req[s].seen
              /\ Entries(s) \subseteq {"ACCESS_ANALYSIS"}

\* an update-alert request failed on a missing alert after a successful load
\* that was logged, following an override that did change the document
C8_Witness ==
    \E s \in Slots :
        /\ EarlyFailure(s) /\ req[s].failedAt = "validate"
        /\ req[s].op.kind = "alert"
        /\ activityLog[s] = <<"ACCESS_ANALYSIS">>
        /\ uploads > 0 /\ storage = req[s].seen

\* ---- concurrent overrides
\* the document the request computes from what it loaded
ComputedDocument(s) ==
    [req[s].loaded EXCEPT ![req[s].productIndex] =
        Recalculate(UpdatedProduct(s), RegenerateAlertsFlag(req[s].op.kind))]

\* s and t both loaded the same stored version, both finished without error,
\* t wrote after s and nothing was written since
LostUpdateRace(s, t) ==
    /\ s # t
    /\ req[s].pc = "done" /\ req[t].pc = "done"
    /\ req[s].loadedAt = req[t].loadedAt
    /\ req[s].uploadedAs < req[t].uploadedAs
    /\ uploads = req[t].uploadedAs

\* C9: when two overrides both load before either persists and both finish
\* without error, the stored document is what the second writer computed from
\* the document it loaded: the first writer's product is back to what the
\* second writer loaded, and both requests ended normally.
C9_LastWriterWins ==
    \A s, t \in Slots :
        LostUpdateRace(s, t) =>
            /\ storage = ComputedDocument(t)
            /\ req[s].productIndex # req[t].productIndex =>
                  storage[req[s].productIndex] = req[t].loaded[req[s].productIndex]
            /\ req[s].failedAt = "none" /\ req[t].failedAt = "none"

\* the race happened and the first writer's returned product, which differs
\* from what it loaded, is not in the stored document
C9_Witness ==
    \E s, t \in Slots :
        /\ LostUpdateRace(s, t)
        /\ Result(s) # LoadedProduct(s)
        /\ storage[req[s].productIndex] # Result(s)
        /\ \E i \in DOMAIN storage : storage[i] = Result(t)

\* ---- alert regeneration after an override
\* C10 as claimed: after a safety-stock override, a lead-time override or a
\* manual-transit addition, the product's alerts are those the regenerator
\* produces from the product as the operation left it.
C10_AsClaimed ==
    \A s \in Slots :
        (req[s].pc = "done" /\ req[s].op.kind \in {"ss", "lt", "transit"}) =>
            FlatAlerts(Result(s).PROYECCIONES) = _regenerateAlertsAndOrders(Result(s))

\* C10 amended: after a safety-stock or a lead-time override the product's
\* alerts are those the regenerator produces from the product as the
\* operation left it; a manual-transit addition does not regenerate and
\* leaves the alerts as they were loaded.
C10_RegeneratedAfterOverride ==
    \A s \in Slots :
        req[s].pc = "done" =>
            /\ req[s].op.kind \in {"ss", "lt"} =>
                  FlatAlerts(Result(s).PROYECCIONES) = _regenerateAlertsAndOrders(Result(s))
            /\ req[s].op.kind = "transit" =>
                  FlatAlerts(Result(s).PROYECCIONES) = FlatAlerts(LoadedProduct(s).PROYECCIONES)

\* a lead-time override is done on a product with a manual order and its
\* alerts differ from the ones it loaded
C10_Witness ==
    \E s \in Slots :
        /\ req[s].pc = "done" /\ req[s].op.kind = "lt"
        /\ ManualPedidos(Result(s)) # <<>>
        /\ FlatAlerts(Result(s).PROYECCIONES) # FlatAlerts(LoadedProduct(s).PROYECCIONES)
        /\ FlatAlerts(Result(s).PROYECCIONES) # <<>>

\* ---- operations that do not regenerate
\* the alerts of a product, month by month
AlertsOf(product) ==
    [i \in DOMAIN product.PROYECCIONES |-> product.PROYECCIONES[i].alertas_y_pedidos]

AllAlertDates(product) == UNION {AlertDates(product, i) : i \in Months(product)}

\* the alert after an edit: the submitted fields, and the fields no edit touches
EditedAs(before, after, updates) ==
    /\ after.fecha_alerta = before.fecha_alerta
    /\ after.cajas_pedir = before.cajas_pedir
    /\ after.unidades = IF "unidades" \in DOMAIN updates
                        THEN updates.unidades ELSE before.unidades
    /\ after.lead_time_especifico = IF "lead_time_especifico" \in DOMAIN updates
                                    THEN updates.lead_time_especifico
                                    ELSE before.lead_time_especifico
    /\ "lead_time_especifico" \notin DOMAIN updates =>
          after.fecha_arribo = before.fecha_arribo

\* C11: after update-alert the alert found by alertId carries the submitted
\* units and/or lead time, the product has the same alert dates as when it was
\* loaded and every other alert is as it was loaded; after
\* add-manual-transit-units every alert is as it was loaded.
C11_AlertsKept ==
    \A s \in Slots :
        req[s].pc = "done" =>
            LET before == AlertsOf(LoadedProduct(s))
                after == AlertsOf(Result(s))
            IN /\ req[s].op.kind = "transit" => after = before
               /\ req[s].op.kind = "alert" =>
                     LET at == _findAlert(LoadedProduct(s), req[s].op.alertId)
                     IN /\ AllAlertDates(Result(s)) = AllAlertDates(LoadedProduct(s))
                        /\ \A i \in DOMAIN before :
                              /\ Len(after[i]) = Len(before[i])
                              /\ \A j \in DOMAIN before[i] :
                                    IF <<i, j>> = at
                                    THEN EditedAs(before[i][j], after[i][j],
                                                  req[s].op.updates)
                                    ELSE after[i][j] = before[i][j]

\* an update-alert request is done on a product with two alerts, the edited
\* alert changed and a regeneration would not have produced it
C11_Witness ==
    \E s \in Slots :
        /\ req[s].pc = "done" /\ req[s].op.kind = "alert"
        /\ Cardinality(AllAlertDates(Result(s))) >= 2
        /\ AlertsOf(Result(s)) # AlertsOf(LoadedProduct(s))
        /\ _regenerateAlertsAndOrders(Result(s)) # FlatAlerts(Result(s).PROYECCIONES)

\* ---- wholesale replacement of the alerts
AlertSet(product) ==
    {FlatAlerts(product.PROYECCIONES)[k] : k \in DOMAIN FlatAlerts(product.PROYECCIONES)}

\* day d lies in the month of the projection
InMonth(projection, d) ==
    projection.fecha_inicio_mes <= d /\ d <= projection.fecha_fin_mes

\* C12: after a safety-stock or lead-time override the alerts attached to the
\* product's projections are exactly the alerts the regenerator returned in
\* that run, in its order, each on the projection whose month contains its
\* alert date, and an alert that was loaded is there only if the regenerator
\* returned it again.
C12_AlertsReplaced ==
    \A s \in Slots :
        (req[s].pc = "done" /\ req[s].op.kind \in {"ss", "lt"}) =>
            LET newAlerts == RegenerateRun(RegeneratorInput(s)).newAlerts
                returned == {newAlerts[k] : k \in DOMAIN newAlerts}
                after == AlertsOf(Result(s))
            IN /\ FlatAlerts(Result(s).PROYECCIONES) = newAlerts
               /\ \A i \in DOMAIN after : \A j \in DOMAIN after[i] :
                     InMonth(Result(s).PROYECCIONES[i], after[i][j].fecha_alerta)
               /\ \A a \in AlertSet(LoadedProduct(s)) :
                     a \in AlertSet(Result(s)) => a \in returned

\* an override that regenerates is done on a product that was loaded with an
\* alert edited to 7 units; the edit is gone and the new alerts lie in two months
C12_Witness ==
    \E s \in Slots :
        /\ req[s].pc = "done" /\ req[s].op.kind \in {"ss", "lt"}
        /\ \E a \in AlertSet(LoadedProduct(s)) :
              a.unidades = 7000 /\ a \notin AlertSet(Result(s))
        /\ \A i \in Months(Result(s)) : AlertDates(Result(s), i) # {}

\* ---- manual pending orders
\* the list before is kept, position by position, in the list after
IsPrefix(before, after) ==
    /\ Len(before) <= Len(after)
    /\ \A k \in DOMAIN before : after[k] = before[k]

\* C13: every step of the service keeps each manual pending order of the
\* stored document in its product's list, with the same units and arrival
\* date, and a finished override returns the orders it loaded.
C13_ManualOrdersKept ==
    [][/\ \A i \in DOMAIN storage :
             IsPrefix(ManualPedidos(storage[i]), ManualPedidos(storage'[i]))
       /\ \A s \in Slots :
             req'[s].pc = "done" =>
                 IsPrefix(ManualPedidos(req'[s].loaded[req'[s].productIndex]),
                          ManualPedidos(req'[s].predictions[req'[s].productIndex]))]_vars

\* a product stored with a manual order went through an override that
\* regenerated its alerts and is stored with the order
C13_Witness ==
    \E s \in Slots :
        /\ req[s].pc = "done" /\ uploads >= 2
        /\ req[s].op.kind \in {"ss", "lt"}
        /\ ManualPedidos(LoadedProduct(s)) # <<>>
        /\ storage[req[s].productIndex] = Result(s)
        /\ ManualPedidos(Result(s)) = ManualPedidos(LoadedProduct(s))

\* ---- stored overrides
OverrideParams == {"SAFETY_STOCK", "LEAD_TIME_DAYS"}

\* the step stores the document of a request that overrides the parameter for
\* month k of product i
Replaces(s, i, param, k) ==
    /\ req[s].pc = "computed" /\ storage' # storage
    /\ req[s].op.kind = (IF param = "SAFETY_STOCK" THEN "ss" ELSE "lt")
    /\ req[s].productIndex = i
    /\ req[s].loaded[i].PROYECCIONES[req[s].op.projectionIndex + 1].mes = k

\* C14: every step of the service keeps each stored per-month override
\* (SAFETY_STOCK or LEAD_TIME_DAYS) in the stored document with its value,
\* unless the step stores an override of the same parameter, product and month.
C14_OverridesKept ==
    [][\A i \in DOMAIN storage : \A param \in OverrideParams :
          LET before == storage[i].CONFIGURACION.OVERRIDES[param]
              after == storage'[i].CONFIGURACION.OVERRIDES[param]
          IN \A k \in DOMAIN before :
                /\ k \in DOMAIN after
                /\ after[k] # before[k] => \E s \in Slots : Replaces(s, i, param, k)]_vars

\* a product is stored with two overrides, put there by two requests
C14_Witness ==
    /\ uploads = 2
    /\ \E i \in DOMAIN storage :
          LET o == storage[i].CONFIGURACION.OVERRIDES
          IN Cardinality(DOMAIN o.SAFETY_STOCK) + Cardinality(DOMAIN o.LEAD_TIME_DAYS) = 2

\* ---- units in transit
\* the merged orders of a product: its manual pending orders and its alerts
MergedOrders(product) == ManualPedidos(product) \o FlatAlerts(product.PROYECCIONES)

\* the day an order starts to count: its alert date, or the simulation start
\* for an order without one
OrderStart(product, o) ==
    IF "fecha_alerta" \in DOMAIN o THEN o.fecha_alerta ELSE product.FECHA_INICIAL

\* units of the merged orders that started on or before day d and arrive after it
UnitsUnderWay(product, d) ==
    LET orders == MergedOrders(product)
    IN SumSeq([k \in DOMAIN orders |->
                  IF OrderStart(product, orders[k]) <= d /\ d < orders[k].fecha_arribo
                  THEN orders[k].unidades ELSE 0])

DayRecords(product) ==
    UNION {{product.PROYECCIONES[i].stock_diario_proyectado[j] :
                j \in DOMAIN product.PROYECCIONES[i].stock_diario_proyectado} :
           i \in Months(product)}

\* C15: in every product the simulator has run on, the unidades_en_transito
\* recorded for a day is the sum of the units of the merged orders that
\* started on or before that day and arrive after it, and every day of the
\* horizon has a record.
C15_UnitsInTransit ==
    \A product \in ReachedProducts :
        /\ \A r \in DayRecords(product) :
              r.unidades_en_transito = UnitsUnderWay(product, r.fecha)
        /\ {r.fecha : r \in DayRecords(product)} = 0..(NumMonths * MonthLen - 1)

\* a product with two manual orders of 20 units arriving on different days:
\* 40 units more than the alert orders before the first arrival, 20 units more
\* up to the second arrival
C15_Witness ==
    \E product \in ReachedProducts :
        LET orders == ManualPedidos(product)
            alertUnits(d) ==
                SumSeq([k \in DOMAIN FlatAlerts(product.PROYECCIONES) |->
                    LET a == FlatAlerts(product.PROYECCIONES)[k]
                    IN IF a.fecha_alerta <= d /\ d < a.fecha_arribo THEN a.unidades ELSE 0])
        IN /\ Len(orders) = 2
           /\ orders[1].unidades = 20000 /\ orders[2].unidades = 20000
           /\ orders[1].fecha_arribo < orders[2].fecha_arribo
           /\ \E r1, r2 \in DayRecords(product) :
                 /\ r1.fecha < orders[1].fecha_arribo
                 /\ r1.unidades_en_transito = 40000 + alertUnits(r1.fecha)
                 /\ orders[1].fecha_arribo <= r2.fecha /\ r2.fecha < orders[2].fecha_arribo
                 /\ r2.unidades_en_transito = 20000 + alertUnits(r2.fecha)
           /\ \E s \in Slots : req[s].pc = "done" /\ product = Result(s)

\* ---- the alert of the first day
\* total stock on the simulation start date, manual arrivals of that day included
StartTotal(product) ==
    product.STOCK_TOTAL
        + SumUnidades(SelectSeq(ManualPedidos(product),
                                LAMBDA p : p.fecha_arribo = product.FECHA_INICIAL))

\* the regenerator's list has an alert dated the simulation start date that
\* arrives the first month's effective lead time later
StartAlert(product, newAlerts) ==
    \E k \in DOMAIN newAlerts :
        /\ newAlerts[k].fecha_alerta = product.FECHA_INICIAL
        /\ newAlerts[k].fecha_arribo =
              product.FECHA_INICIAL
                  + _getEffectiveLeadTime(product, product.PROYECCIONES[1].mes)

\* what the regenerator would order on the start date
StartDeficit(product) ==
    product.PROYECCIONES[1].punto_reorden - StartTotal(product)
        + product.PROYECCIONES[1].consumo_diario
              * _getEffectiveLeadTime(product, product.PROYECCIONES[1].mes)

\* C16 as claimed: when the total stock of the start date is at or below the
\* first month's reorder point and units-per-box is positive, the regenerator
\* run of the override returns an alert dated the start date that arrives the
\* month's effective lead time later.
C16_AsClaimed ==
    \A s \in Slots :
        (req[s].pc = "done" /\ RegenerateAlertsFlag(req[s].op.kind)) =>
            LET product == RegeneratorInput(s)
            IN (/\ StartTotal(product) <= product.PROYECCIONES[1].punto_reorden
                /\ product.UNIDADES_POR_CAJA > 0) =>
                   StartAlert(product, RegenerateRun(product).newAlerts)

\* C16 amended: when the total stock of the start date is at or below the
\* first month's reorder point, units-per-box is positive and the deficit
\* (reorder point - total stock + daily consumption x lead time) is positive,
\* the regenerator run of the override returns an alert dated the start date
\* that arrives the month's effective lead time later; with a deficit of zero
\* it returns no alert for that date.
C16_StartAlert ==
    \A s \in Slots :
        (req[s].pc = "done" /\ RegenerateAlertsFlag(req[s].op.kind)) =>
            LET product == RegeneratorInput(s)
                newAlerts == RegenerateRun(product).newAlerts
            IN (/\ StartTotal(product) <= product.PROYECCIONES[1].punto_reorden
                /\ product.UNIDADES_POR_CAJA > 0) =>
                   IF StartDeficit(product) > 0
                   THEN StartAlert(product, newAlerts)
                   ELSE \A k \in DOMAIN newAlerts :
                           newAlerts[k].fecha_alerta # product.FECHA_INICIAL

\* stock 100, consumption 10 a day, lead time 20 by default, safety stock 0,
\* no pending order: the override's regenerator run puts the first alert on
\* day 0 with arrival on day 20
C16_Witness ==
    \E s \in Slots :
        /\ req[s].pc = "done" /\ req[s].op.kind = "lt"
        /\ LET product == RegeneratorInput(s)
               newAlerts == RegenerateRun(product).newAlerts
           IN /\ product.STOCK_TOTAL = 100000
              /\ product.PROYECCIONES[1].consumo_diario = 10000
              /\ product.PROYECCIONES[1].punto_reorden = 200000
              /\ product.PEDIDOS_POR_LLEGAR = <<>>
              /\ newAlerts # <<>>
              /\ newAlerts[1].fecha_alerta = 0 /\ newAlerts[1].fecha_arribo = 20
              /\ FlatAlerts(Result(s).PROYECCIONES) = newAlerts

\* ---- stock is floored at zero
\* C17: in every product the simulator has run on, each recorded daily
\* stock_proyectado and each month's ending stock is >= 0, and in the
\* regenerator run of an override both running balances are >= 0 at the end
\* of every simulated day.
C17_StockNotNegative ==
    /\ \A product \in ReachedProducts :
          /\ \A r \in DayRecords(product) : r.stock_proyectado >= 0
          /\ \A i \in Months(product) : product.PROYECCIONES[i].stock_proyectado_mes >= 0
    /\ \A s \in Slots :
          (req[s].pc = "done" /\ RegenerateAlertsFlag(req[s].op.kind)) =>
              LET balances == RegenerateLoop(RegeneratorInput(s)).balances
              IN /\ Len(balances) = NumMonths * MonthLen
                 /\ \A k \in DOMAIN balances :
                       /\ balances[k].stockFisicoSimulado >= 0
                       /\ balances[k].stockTotalSimulado >= 0

\* an override is done on a product that consumes 10 a day and whose stock ran
\* out: a day is recorded with stock 0 after a day with less than 10 left, and
\* the regenerator's physical balance ended a day at 0
C17_Witness ==
    \E s \in Slots :
        /\ req[s].pc = "done" /\ RegenerateAlertsFlag(req[s].op.kind)
        /\ Result(s).PROYECCIONES[1].consumo_diario = 10000
        /\ \E r1, r2 \in DayRecords(Result(s)) :
              /\ r2.fecha = r1.fecha + 1
              /\ r1.stock_proyectado > 0 /\ r1.stock_proyectado < 10000
              /\ r2.stock_proyectado = 0
        /\ \E k \in DOMAIN RegenerateLoop(RegeneratorInput(s)).balances :
              RegenerateLoop(RegeneratorInput(s)).balances[k].stockFisicoSimulado = 0

\* ---- failures while persisting and while logging
OverrideEntries(s) == Entries(s) \cap OverrideActionTypes

\* C18: a request that failed while persisting has left the stored document as
\* it loaded it and has written no override entry.
C18_PersistFailure ==
    \A s \in Slots :
        (req[s].pc = "failed" /\ req[s].failedAt = "persist") =>
            /\ storage = req[s].loaded
            /\ OverrideEntries(s) = {}

\* C19: a request that persisted its document and whose override entry was
\* not written has returned its product without error, and the stored
\* document is the one it persisted.
C19_AuditFailureSwallowed ==
    \A s \in Slots :
        (/\ req[s].wrote /\ req[s].failedAt # "persist"
         /\ req[s].pc # "uploaded" /\ OverrideEntries(s) = {}) =>
            /\ req[s].pc = "done" /\ req[s].failedAt = "none"
            /\ Result(s) = Recalculate(UpdatedProduct(s),
                                       RegenerateAlertsFlag(req[s].op.kind))
            /\ storage = req[s].predictions

\* an override changed its product, persisted it and returned, and its log
\* has no entry at all
C19_Witness ==
    \E s \in Slots :
        /\ req[s].pc = "done" /\ req[s].wrote
        /\ activityLog[s] = <<>>
        /\ Result(s) # LoadedProduct(s)
        /\ storage[req[s].productIndex] = Result(s)

\* ---- headline metrics
\* the configuration's lead time, else 20
HeadlineLeadTime(product) ==
    IF "LEAD_TIME_DAYS" \in DOMAIN product.CONFIGURACION
    THEN product.CONFIGURACION.LEAD_TIME_DAYS ELSE 20

\* n is the least whole number of boxes that covers the deficit
IsCeiling(n, deficit, box) ==
    n >= 0 /\ n * box >= deficit /\ (n > 0 => (n - 1) * box < deficit)

HeadlineMetrics(product) ==
    <<product.STOCK_SEGURIDAD, product.PUNTO_REORDEN, product.DEFICIT,
      product.CAJAS_A_PEDIR, product.UNIDADES_A_PEDIR>>

\* C20: the product an override returns has PUNTO_REORDEN = CONSUMO_DIARIO x
\* (configuration lead time, else 20) + the safety stock resolved with no
\* month, DEFICIT = max(PUNTO_REORDEN - STOCK_TOTAL, 0), CAJAS_A_PEDIR the
\* ceiling of DEFICIT / UNIDADES_POR_CAJA (0 without a positive box size) and
\* UNIDADES_A_PEDIR = CAJAS_A_PEDIR x UNIDADES_POR_CAJA; a safety-stock or
\* lead-time override leaves all of them as they were loaded.
C20_HeadlineMetrics ==
    \A s \in Slots :
        req[s].pc = "done" =>
            LET product == Result(s)
                rop == product.CONSUMO_DIARIO * HeadlineLeadTime(product)
                           + _getEffectiveSafetyStock(product, NullKey)
            IN /\ product.PUNTO_REORDEN = rop
               /\ product.DEFICIT = (IF rop > product.STOCK_TOTAL
                                     THEN rop - product.STOCK_TOTAL ELSE 0)
               /\ IF product.UNIDADES_POR_CAJA > 0
                  THEN IsCeiling(product.CAJAS_A_PEDIR, product.DEFICIT,
                                 product.UNIDADES_POR_CAJA)
                  ELSE product.CAJAS_A_PEDIR = 0
               /\ product.UNIDADES_A_PEDIR
                     = product.CAJAS_A_PEDIR * product.UNIDADES_POR_CAJA
               /\ req[s].op.kind \in {"ss", "lt"} =>
                     HeadlineMetrics(product) = HeadlineMetrics(LoadedProduct(s))

\* a safety-stock override changed the first month's reorder point of a
\* product that has a deficit and a box size, and more than one box to order
C20_Witness ==
    \E s \in Slots :
        /\ req[s].pc = "done" /\ req[s].op.kind = "ss"
        /\ Result(s).PROYECCIONES[1].punto_reorden
              # LoadedProduct(s).PROYECCIONES[1].punto_reorden
        /\ Result(s).DEFICIT > 0 /\ Result(s).UNIDADES_POR_CAJA > 0
        /\ Result(s).CAJAS_A_PEDIR > 1
        /\ Result(s).DEFICIT < Result(s).UNIDADES_A_PEDIR

MonthOfDay(product, d) ==
    product.PROYECCIONES[CHOOSE i \in Months(product) : InMonth(product.PROYECCIONES[i], d)]

\* whole boxes covering the deficit, in units; nothing without a box size
OrderUnits(deficit, box) ==
    IF box > 0
    THEN box * (CHOOSE n \in ((deficit \div box) - 1)..((deficit \div box) + 1) :
                    n * box >= deficit /\ (n - 1) * box < deficit)
    ELSE 0

\* manual units arriving on day d
ManualArrivals(product, d) ==
    SumUnidades(SelectSeq(ManualPedidos(product), LAMBDA p : p.fecha_arribo = d))

\* the rule on day k of a pass over product that left alerts and balances
EmissionRule(product, alerts, balances, k) ==
    LET d == balances[k].fecha
        total == (IF k = 1 THEN product.STOCK_TOTAL
                  ELSE balances[k - 1].stockTotalSimulado) + ManualArrivals(product, d)
        projection == MonthOfDay(product, d)
        units == OrderUnits(projection.punto_reorden - total
                                + projection.consumo_diario
                                    * _getEffectiveLeadTime(product, projection.mes),
                            product.UNIDADES_POR_CAJA)
        emitted == {j \in DOMAIN alerts : alerts[j].fecha_alerta = d}
        due == total <= projection.punto_reorden /\ units > 0
    IN /\ emitted # {} <=> due
       /\ \A j \in emitted : alerts[j].unidades = units
       /\ balances[k].stockTotalSimulado
              = Max0(total + (IF due THEN units ELSE 0) - projection.consumo_diario)

\* C22: on each day of a regeneration an alert is emitted if and only if, after
\* the day's manual arrivals, total stock <= the month's reorder point and the
\* units of the whole boxes covering reorder point - total stock + daily
\* consumption x effective lead time are > 0; the alert stored for that day
\* carries those units, and the running total is raised by them before the
\* day's consumption is subtracted.
C22_EmissionRule ==
    \A s \in Slots :
        (req[s].pc = "done" /\ RegenerateAlertsFlag(req[s].op.kind)) =>
            LET product == RegeneratorInput(s)
                balances == RegenerateLoop(product).balances
                alerts == FlatAlerts(Result(s).PROYECCIONES)
            IN /\ Len(balances) = NumMonths * MonthLen
               /\ \A k \in DOMAIN balances :
                     EmissionRule(product, alerts, balances, k)

\* a regeneration is done in which one day emitted an alert after a manual
\* arrival, another day was at or under the reorder point with nothing to
\* order or above it, and the total after the alert's day shows its units
C22_Witness ==
    \E s \in Slots :
        /\ req[s].pc = "done" /\ RegenerateAlertsFlag(req[s].op.kind)
        /\ LET product == RegeneratorInput(s)
               balances == RegenerateLoop(product).balances
               alerts == FlatAlerts(Result(s).PROYECCIONES)
           IN /\ \E j \in DOMAIN alerts :
                    /\ ManualArrivals(product, alerts[j].fecha_alerta) > 0
                    /\ \E k \in DOMAIN balances :
                          /\ balances[k].fecha = alerts[j].fecha_alerta
                          /\ balances[k].stockTotalSimulado
                                 > balances[k].stockFisicoSimulado
              /\ \E k \in DOMAIN balances :
                    \A j \in DOMAIN alerts : alerts[j].fecha_alerta # balances[k].fecha

\* ---- boxes of an alert
\* C23: in every product stored or computed, after any sequence of
\* regenerations and update-alert operations, every alert's cajas_pedir is the
\* least whole number of boxes of UNIDADES_POR_CAJA units that holds its
\* unidades.
C23_BoxesMatchUnits ==
    \A product \in ReachedProducts : \A a \in AlertSet(product) :
        product.UNIDADES_POR_CAJA > 0 =>
            /\ a.cajas_pedir * product.UNIDADES_POR_CAJA >= a.unidades
            /\ (a.cajas_pedir - 1) * product.UNIDADES_POR_CAJA < a.unidades

\* ---- arrival date of an alert
\* units of the alerts whose alert date plus recorded lead time is day d
AlertUnitsDue(product, d) ==
    LET alerts == FlatAlerts(product.PROYECCIONES)
    IN SumSeq([k \in DOMAIN alerts |->
                  IF alerts[k].fecha_alerta + alerts[k].lead_time_especifico = d
                  THEN alerts[k].unidades ELSE 0])

\* the stock recorded for day j of month i follows from the stock before it,
\* the units received that day and the month's consumption
DayFollows(product, i, j, received) ==
    LET projection == product.PROYECCIONES[i]
        diario == projection.stock_diario_proyectado
        before == IF j = 1 THEN projection.stock_inicial_mes
                  ELSE diario[j - 1].stock_proyectado
    IN diario[j].stock_proyectado = Max0(before + received - projection.consumo_diario)

\* C24: in every product stored or computed, after any sequence of
\* regenerations and update-alert operations, every alert's fecha_arribo is its
\* fecha_alerta plus lead_time_especifico days, and the stock the simulator
\* records for a day has received the units of exactly the alerts due on that
\* day (with the manual orders arriving on it).
C24_ArrivalDate ==
    \A product \in ReachedProducts :
        /\ \A a \in AlertSet(product) :
              a.fecha_arribo = a.fecha_alerta + a.lead_time_especifico
        /\ \A i \in Months(product) :
              \A j \in DOMAIN product.PROYECCIONES[i].stock_diario_proyectado :
                  LET d == product.PROYECCIONES[i].stock_diario_proyectado[j].fecha
                  IN DayFollows(product, i, j,
                         AlertUnitsDue(product, d) + ManualArrivals(product, d))

\* an update-alert request is done that moved an alert's arrival to another
\* day of the horizon, and the stock of that day has risen by the 7 units
\* submitted less the day's consumption
C24_Witness ==
    \E s \in Slots :
        /\ req[s].pc = "done" /\ req[s].op.kind = "alert"
        /\ LET at == _findAlert(LoadedProduct(s), req[s].op.alertId)
               before == LoadedProduct(s).PROYECCIONES[at[1]].alertas_y_pedidos[at[2]]
               after == Result(s).PROYECCIONES[at[1]].alertas_y_pedidos[at[2]]
           IN /\ after.fecha_arribo # before.fecha_arribo
              /\ after.unidades = 7000
              /\ \E r1, r2 \in DayRecords(Result(s)) :
                    /\ r2.fecha = after.fecha_arribo /\ r1.fecha = r2.fecha - 1
                    /\ r2.stock_proyectado > r1.stock_proyectado
                    /\ r2.stock_proyectado
                           = r1.stock_proyectado + 7000
                                 - Result(s).PROYECCIONES[1].consumo_diario

\* ---- arrivals in the regenerator's pass
\* units of the pending orders entered by hand that arrive on day d
ManualUnitsOn(product, d) ==
    SumSeq([k \in DOMAIN product.PEDIDOS_POR_LLEGAR |->
               IF /\ product.PEDIDOS_POR_LLEGAR[k].isManual
                  /\ product.PEDIDOS_POR_LLEGAR[k].fecha_arribo = d
               THEN product.PEDIDOS_POR_LLEGAR[k].unidades ELSE 0])

\* units of the alerts of a list dated day d
EmittedOn(alerts, d) ==
    SumSeq([k \in DOMAIN alerts |->
               IF alerts[k].fecha_alerta = d THEN alerts[k].unidades ELSE 0])

\* the product with only its manual pending orders
OnlyManual(product) ==
    [product EXCEPT !.PEDIDOS_POR_LLEGAR = SelectSeq(@, LAMBDA p : p.isManual)]

\* C25: in the regeneration of an override the physical balance receives the
\* manual orders arriving on a day and nothing else; the total balance
\* receives those and the units of the alerts emitted that day, so an emitted
\* alert counts once, on its alert date, and not on its arrival date; and the
\* pass yields the same alerts and balances with the loaded alerts still
\* attached and with the orders not entered by hand taken away.
C25_ManualArrivalsOnly ==
    \A s \in Slots :
        (req[s].pc = "done" /\ RegenerateAlertsFlag(req[s].op.kind)) =>
            LET product == RegeneratorInput(s)
                run == RegenerateLoop(product)
                balances == run.balances
                alerts == FlatAlerts(Result(s).PROYECCIONES)
            IN /\ \A k \in DOMAIN balances :
                     LET d == balances[k].fecha
                         consumo == MonthOfDay(product, d).consumo_diario
                         fisico == IF k = 1 THEN product.STOCK_TOTAL
                                   ELSE balances[k - 1].stockFisicoSimulado
                         total == IF k = 1 THEN product.STOCK_TOTAL
                                  ELSE balances[k - 1].stockTotalSimulado
                     IN /\ balances[k].stockFisicoSimulado
                               = Max0(fisico + ManualUnitsOn(product, d) - consumo)
                        /\ balances[k].stockTotalSimulado
                               = Max0(total + ManualUnitsOn(product, d)
                                          + EmittedOn(alerts, d) - consumo)
               /\ RegenerateLoop(RefreshProjectionParams(UpdatedProduct(s))) = run
               /\ RegenerateLoop(OnlyManual(product)) = run

\* a regeneration is done on a product loaded with alerts, with a manual order
\* and an order not entered by hand, both arriving within the horizon, and an
\* alert it emitted arrives within the horizon
C25_Witness ==
    \E s \in Slots :
        /\ req[s].pc = "done" /\ RegenerateAlertsFlag(req[s].op.kind)
        /\ AlertSet(LoadedProduct(s)) # {}
        /\ \E k, n \in DOMAIN Result(s).PEDIDOS_POR_LLEGAR :
              /\ Result(s).PEDIDOS_POR_LLEGAR[k].isManual
              /\ ~Result(s).PEDIDOS_POR_LLEGAR[n].isManual
              /\ Result(s).PEDIDOS_POR_LLEGAR[k].fecha_arribo < NumMonths * MonthLen
              /\ Result(s).PEDIDOS_POR_LLEGAR[n].fecha_arribo < NumMonths * MonthLen
        /\ \E a \in AlertSet(Result(s)) :
              /\ a.fecha_arribo < NumMonths * MonthLen
              /\ \E k \in DOMAIN RegenerateLoop(RegeneratorInput(s)).balances :
                    LET b == RegenerateLoop(RegeneratorInput(s)).balances[k]
                    IN b.fecha = a.fecha_arribo /\ b.stockTotalSimulado > 0

\* ---- outcome of the forecasting subprocess
ScriptRejected == script.promise \in {"rejectedTimeout", "rejectedExit"}

\* what holds of a run at every moment
ScriptOutcome ==
    /\ script.promise = "resolved" <=> (script.closeCode = <<0>> /\ script.timer = "cleared")
    /\ script.timer = "fired" =>
          script.promise = "rejectedTimeout" /\ script.process # "running"
    /\ (script.closeCode # <<>> /\ script.closeCode # <<0>>) => ScriptRejected
    /\ script.pc = "created" => script.promise = "resolved"
    /\ (script.pc = "failed" /\ storage = <<>>) => uploads = 0

\* C26: a run of the script resolves only if the process closed with code 0
\* before the timeout; when the timeout elapses first the process is killed
\* and the run is rejected; a close with another code rejects; once the
\* promise is settled no later event changes it, the caller is resumed once,
\* and every run ends: the caller either goes on to store the analysis or
\* fails.
C26_OneOutcome ==
    /\ []ScriptOutcome
    /\ [][/\ script.promise # "pending" => script'.promise = script.promise
          /\ script.pc \in {"created", "failed"} => script'.pc = script.pc]_vars
    /\ (script.pc = "awaiting") ~> (script.pc \in {"created", "failed"})

\* the timeout elapsed, the run failed, and the process closed with code 0
\* afterwards
C26_Witness ==
    /\ script.timer = "fired" /\ script.closeCode = <<0>>
    /\ script.promise = "rejectedTimeout" /\ script.pc = "failed"

\* ---- one alert email a day
\* C27: among the emails sent, no two come from non-manual calls made for the
\* same product code on the same calendar day; a non-manual call that found an
\* alert due and did not send returned alreadySent (or the send itself
\* failed); a manual call that found an alert due went on to send, and no
\* manual call has written the cache.
C27_Dedup ==
    /\ \A i, j \in DOMAIN outbox :
          (/\ i # j /\ ~outbox[i].isManual /\ ~outbox[j].isManual
           /\ outbox[i].codigo = outbox[j].codigo) =>
              outbox[i].hoy # outbox[j].hoy
    /\ \A s \in Slots :
          (alertCalls[s].pc = "returned" /\ alertCalls[s].isManual) =>
              alertCalls[s].result # "alreadySent"
    /\ \A codigo \in DOMAIN lastSentDates :
          \E i \in DOMAIN outbox :
              /\ ~outbox[i].isManual /\ outbox[i].codigo = codigo
              /\ outbox[i].hoy = lastSentDates[codigo]

\* ---- identity of an alert
\* positions of the alerts of a product dated day d
AlertsDated(product, d) ==
    {k \in DOMAIN FlatAlerts(product.PROYECCIONES) :
        FlatAlerts(product.PROYECCIONES)[k].fecha_alerta = d}

\* C28: in every product stored or computed, after any sequence of overrides,
\* no two alerts have the same fecha_alerta, so at most one alert matches the
\* date _findAlert looks for.
C28_AlertDatesUnique ==
    \A product \in ReachedProducts :
        \A d \in AllAlertDates(product) : Cardinality(AlertsDated(product, d)) = 1

\* a second override has regenerated the alerts of a product that was loaded
\* with alerts and now has two or more
C28_Witness ==
    \E s \in Slots :
        /\ req[s].pc = "done" /\ opsStarted >= 2
        /\ RegenerateAlertsFlag(req[s].op.kind)
        /\ AlertSet(LoadedProduct(s)) # {}
        /\ Len(FlatAlerts(Result(s).PROYECCIONES)) >= 2

\* ---- the other products of the document
\* the request whose upload is the latest one
LatestWriter(s) == req[s].wrote /\ req[s].uploadedAs = uploads

\* C29: once an override has persisted, the stored document has as many
\* products as the request loaded, with the same codes in the same order, and
\* every product whose code is not the target's is as it was loaded.
C29_OtherProductsUnchanged ==
    \A s \in Slots :
        LatestWriter(s) =>
            /\ Len(storage) = Len(req[s].loaded)
            /\ \A i \in DOMAIN req[s].loaded :
                  /\ storage[i].CODIGO = req[s].loaded[i].CODIGO
                  /\ storage[i].CODIGO # req[s].op.productCode =>
                        storage[i] = req[s].loaded[i]

\* an override of one product is done and stored its change, next to another
\* product that an earlier override had changed and that is as it was loaded
C29_Witness ==
    \E s \in Slots :
        /\ req[s].pc = "done" /\ LatestWriter(s)
        /\ storage[req[s].productIndex] # LoadedProduct(s)
        /\ \E i \in DOMAIN storage :
              /\ storage[i].CODIGO # req[s].op.productCode
              /\ storage[i] = req[s].loaded[i]
              /\ storage[i] # InitialDocument[i]

\* ---- orders received by the simulator
SimulatedDays == 0..(NumMonths * MonthLen - 1)

\* units of the merged orders whose arrival date is day d
UnitsArriving(product, d) ==
    LET orders == MergedOrders(product)
    IN SumSeq([k \in DOMAIN orders |->
                  IF orders[k].fecha_arribo = d THEN orders[k].unidades ELSE 0])

\* the product without the orders and alerts that arrive on no simulated day
WithinHorizon(product) ==
    [product EXCEPT
        !.PEDIDOS_POR_LLEGAR = SelectSeq(@, LAMBDA p : p.fecha_arribo \in SimulatedDays),
        !.PROYECCIONES = [i \in DOMAIN @ |->
            [@[i] EXCEPT !.alertas_y_pedidos =
                SelectSeq(@, LAMBDA a : a.fecha_arribo \in SimulatedDays)]]]

\* the physical stock recorded day by day, month by month
StockTrajectory(product) ==
    [i \in Months(product) |->
        [j \in DOMAIN product.PROYECCIONES[i].stock_diario_proyectado |->
            product.PROYECCIONES[i].stock_diario_proyectado[j].stock_proyectado]]

\* C30: in every product the simulator has run on, the stock recorded for a
\* day has received the units of the merged orders (manual orders and
\* alerts) that arrive on that day, each order on its arrival day only, in
\* whichever month that day lies, and the recorded stock is the same as
\* without the orders that arrive on no simulated day.
C30_ReceivedOnce ==
    \A product \in ReachedProducts :
        /\ \A i \in Months(product) :
              \A j \in DOMAIN product.PROYECCIONES[i].stock_diario_proyectado :
                  DayFollows(product, i, j,
                      UnitsArriving(product,
                          product.PROYECCIONES[i].stock_diario_proyectado[j].fecha))
        /\ StockTrajectory(_recalculateProjections(WithinHorizon(product)))
               = StockTrajectory(product)

\* an override is done on a product with an order received in the first
\* month, another received in the second, an alert that arrives after the
\* horizon, and stock left at the start of the second month
C30_Witness ==
    \E s \in Slots :
        /\ req[s].pc = "done"
        /\ \E k, n \in DOMAIN MergedOrders(Result(s)) :
              /\ MergedOrders(Result(s))[k].fecha_arribo \in 0..(MonthLen - 1)
              /\ MergedOrders(Result(s))[n].fecha_arribo \in MonthLen..(2 * MonthLen - 1)
        /\ \E a \in AlertSet(Result(s)) : a.fecha_arribo \notin SimulatedDays
        /\ Result(s).PROYECCIONES[2].stock_inicial_mes > 0
        /\ Result(s).PROYECCIONES[1].consumo_diario > 0

====
